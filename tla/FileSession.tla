---------------------------- MODULE FileSession ----------------------------
(***************************************************************************)
(* What HandleMgr promises its callers, the data collectors: a session over *)
(* a family of files, with no trace of the limited table of open handles.   *)
(* In a session opened with H5F_ACC_TRUNC every file is created (and hence  *)
(* truncated) at most once, and what the session has put into a file stays  *)
(* there until the session ends, however often the file is closed and       *)
(* opened again in between.                                                 *)
(***************************************************************************)

VARIABLES
    mode,               \* "CLOSED", or the access mode of the open session
    created,            \* files created in this session
    written,            \* files holding what the callers wrote in this session
    disk                \* files that exist

vars == <<mode, created, written, disk>>

Modes == {"RDONLY", "RDWR", "TRUNC"}

Init ==
    /\ mode = "CLOSED"
    /\ created = {}
    /\ written = {}
    /\ disk = {}

Begin(m) ==
    /\ mode = "CLOSED"
    /\ mode' = m
    /\ UNCHANGED <<created, written, disk>>

\* First access to a file of a creating session.
Create ==
    /\ mode = "TRUNC"
    /\ \E f \in created' \ created :
        /\ created' = created \union {f}
        /\ disk' = disk \union {f}
    /\ UNCHANGED <<mode, written>>

\* Content goes into files the session created or, without H5F_ACC_TRUNC, found.
Write ==
    /\ mode \in {"RDWR", "TRUNC"}
    /\ written \subseteq written'
    /\ written' \subseteq IF mode = "TRUNC" THEN created ELSE disk
    /\ UNCHANGED <<mode, created, disk>>

End ==
    /\ mode' = "CLOSED"
    /\ created' = {}
    /\ written' = {}
    /\ UNCHANGED disk

Next ==
    \/ \E m \in Modes : Begin(m)
    \/ Create
    \/ Write
    \/ End

Spec == Init /\ [][Next]_vars

=============================================================================
