------------------------------ MODULE Inverse -------------------------------
(***************************************************************************)
(* Conn.ApplyInverseChangeset (session.go): a goroutine inverts the        *)
(* changeset into an io.Pipe while the caller applies what it reads from   *)
(* the pipe, and then drains the pipe to wait for the goroutine.           *)
(***************************************************************************)
EXTENDS Naturals

CONSTANT Changes    \* changes in the reader r

VARIABLES
    left,      \* changes not yet read from r
    offered,   \* a Write on the pipe that no Read has taken yet
    wclosed,   \* pw is closed
    ipc,       \* the goroutine: "none", "read", "write", "done"
    apc        \* the caller: "start", "apply", "drain", "returned"

invvars == <<left, offered, wclosed, ipc, apc>>

InverseInit ==
    /\ left = Changes /\ offered = FALSE /\ wclosed = FALSE
    /\ ipc = "none" /\ apc = "start"

\* The reader that InvertChangeset is given: pr, the end of the pipe it writes.
InvertFrom == "pr"

\* A Read: one of r returns at once, one of the pipe waits for a Write or for
\* the end.
ReadR == left > 0 /\ left' = left - 1 /\ UNCHANGED offered
ReadPipe == offered /\ offered' = FALSE /\ UNCHANGED left
AtEnd(reader) == IF reader = "r" THEN left = 0 ELSE wclosed /\ ~offered

\* The pipe is made and the goroutine started.
CallApplyInverse ==
    /\ apc = "start"
    /\ apc' = "apply" /\ ipc' = "read"
    /\ UNCHANGED <<left, offered, wclosed>>

\* InvertChangeset: sqlite3changeset_invert_strm reads a change and writes its
\* inverse; the Write returns when it has been read.
InvertReads ==
    /\ ipc = "read"
    /\ IF InvertFrom = "r" THEN ReadR ELSE ReadPipe
    /\ ipc' = "write"
    /\ UNCHANGED <<wclosed, apc>>

InvertWrites ==
    /\ ipc = "write" /\ ~offered
    /\ offered' = TRUE /\ ipc' = "read"
    /\ UNCHANGED <<left, wclosed, apc>>

\* pw.CloseWithError.
InvertEnds ==
    /\ ipc = "read" /\ AtEnd(InvertFrom) /\ ~offered
    /\ wclosed' = TRUE /\ ipc' = "done"
    /\ UNCHANGED <<left, offered, apc>>

\* ApplyChangeset(pr, ...), and io.Copy(io.Discard, pr) after it.
CallerReads ==
    /\ apc \in {"apply", "drain"} /\ ReadPipe
    /\ UNCHANGED <<wclosed, ipc, apc>>

\* ApplyChangeset ends with the input, or earlier with an error.
ApplyEnds ==
    /\ apc = "apply" /\ AtEnd("pr")
    /\ apc' = "drain"
    /\ UNCHANGED <<left, offered, wclosed, ipc>>

ApplyFails ==
    /\ apc = "apply"
    /\ apc' = "drain"
    /\ UNCHANGED <<left, offered, wclosed, ipc>>

DrainEnds ==
    /\ apc = "drain" /\ AtEnd("pr")
    /\ apc' = "returned"
    /\ UNCHANGED <<left, offered, wclosed, ipc>>

Inverter == InvertReads \/ InvertWrites \/ InvertEnds
Caller == CallerReads \/ ApplyEnds \/ DrainEnds
InverseNext == CallApplyInverse \/ Inverter \/ Caller \/ ApplyFails

\* The Go scheduler runs every goroutine that can run.
InverseSpec ==
    /\ InverseInit /\ [][InverseNext]_invvars
    /\ WF_invvars(Inverter) /\ WF_invvars(Caller)

\* ApplyInverseChangeset returns: "ApplyInverseChangeset applies the inverse of
\* a changeset to the database."
ApplyInverseReturns == (apc = "apply") ~> (apc = "returned")
=============================================================================
