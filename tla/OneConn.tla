------------------------------ MODULE OneConn -------------------------------
(***************************************************************************)
(* What one goroutine does with one connection, for TLC: statements and    *)
(* the helpers that run them, savepoints and transactions, blob handles,   *)
(* and the temporary files and buffers of package sqlitefile.  These parts *)
(* share nothing but the connection and each has rows of its own, so one   *)
(* of them is explored while the others are as they were created.          *)
(***************************************************************************)
EXTENDS File, Buffer, Blob, Savepoint, Statements, ExecArgs

OneConnInit ==
    Init /\ BufferInit /\ BlobInit /\ SavepointInit /\ StatementsInit /\ ArgsInit

OneConnNext ==
    \/ /\ BufferInit /\ BlobInit /\ SavepointInit /\ StatementsInit /\ ArgsInit
       /\ Next
       /\ UNCHANGED <<buffervars, blobvars, spvars, stvars, argvars>>
    \/ /\ Init /\ BlobInit /\ SavepointInit /\ StatementsInit /\ ArgsInit
       /\ BufferNext
       /\ UNCHANGED <<filevars, blobvars, spvars, stvars, argvars>>
    \/ /\ Init /\ BufferInit /\ SavepointInit /\ StatementsInit /\ ArgsInit
       /\ BlobNext
       /\ UNCHANGED <<filevars, buffervars, spvars, stvars, argvars>>
    \/ /\ Init /\ BufferInit /\ BlobInit /\ StatementsInit /\ ArgsInit
       /\ SavepointNext
       /\ UNCHANGED <<filevars, buffervars, blobvars, stvars, argvars>>
    \/ /\ Init /\ BufferInit /\ BlobInit /\ SavepointInit /\ ArgsInit
       /\ StatementsNext
       /\ UNCHANGED <<filevars, buffervars, blobvars, spvars, argvars>>
    \/ /\ Init /\ BufferInit /\ BlobInit /\ SavepointInit /\ StatementsInit
       /\ ArgsNext
       /\ UNCHANGED <<filevars, buffervars, blobvars, spvars, stvars>>

OneConnSpec ==
    /\ OneConnInit
    /\ [][OneConnNext]_<<filevars, buffervars, blobvars, spvars, stvars, argvars>>
-----------------------------------------------------------------------------
\* The values of every part's variables; among them that append never makes a
\* page of a buffer longer than it is: "never grows wbuf" (buffer.go:174).
OneConnTypeOK ==
    TypeOK /\ BufferTypeOK /\ BlobTypeOK /\ SavepointTypeOK /\ StatementsTypeOK
=============================================================================
