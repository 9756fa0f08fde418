------------------------------ MODULE Boundary ------------------------------
(***************************************************************************)
(* The boundary between Go and SQLite's C code, for TLC: the table of      *)
(* connections with the busy handlers and authorizers, the registries of   *)
(* callbacks, the objects of the session extension and the virtual table   *)
(* generate_series.  They share no state, so one of them is explored while *)
(* the others are in their initial state.                                  *)
(***************************************************************************)
EXTENDS ConnTable, Registry, Series, Session

BoundaryInit == ConnTableInit /\ RegistryInit /\ SeriesInit /\ SessionInit

BoundaryNext ==
    \/ /\ RegistryInit /\ SeriesInit /\ SessionInit
       /\ ConnTableNext
       /\ UNCHANGED <<regvars, seriesvars, sessionvars>>
    \/ /\ ConnTableInit /\ SeriesInit /\ SessionInit
       /\ RegistryNext
       /\ UNCHANGED <<ctvars, seriesvars, sessionvars>>
    \/ /\ ConnTableInit /\ RegistryInit /\ SessionInit
       /\ SeriesNext
       /\ UNCHANGED <<ctvars, regvars, sessionvars>>
    \/ /\ ConnTableInit /\ RegistryInit /\ SeriesInit
       /\ SessionNext
       /\ UNCHANGED <<ctvars, regvars, seriesvars>>

BoundarySpec ==
    BoundaryInit /\ [][BoundaryNext]_<<ctvars, regvars, seriesvars, sessionvars>>
-----------------------------------------------------------------------------
\* The values of every part's variables.
BoundaryTypeOK == ConnTableTypeOK /\ RegistryTypeOK /\ SessionTypeOK
=============================================================================
