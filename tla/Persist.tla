------------------------------- MODULE Persist -------------------------------
(***************************************************************************)
(* The save that all store files share, persist_with_lock of               *)
(* tui/persist.rs, by several processes on one file: take the lock, read,  *)
(* merge, write the temporary file, rename it over the store.  Every step  *)
(* can fail, and the process can die between any two.                      *)
(*                                                                         *)
(* Reviewed marks and comments are saved as the bucket of one workspace    *)
(* (viewed.rs, comments/store.rs), fetch outcomes as one record            *)
(* (fetch_claim.rs) and UI settings as one field (ui_state_store.rs).      *)
(*                                                                         *)
(* Left out: power loss (the code does not sync), and writers that do not  *)
(* take the lock.                                                          *)
(***************************************************************************)
CONSTANTS Processes, Keys, KeyOf, Buckets, Absent,
          Nobody

ASSUME PersistAssumption ==
    /\ KeyOf \in [Processes -> Keys]
    /\ Absent \notin Buckets
    /\ Nobody \notin Processes

VARIABLES file,   \* the store
          tmp,    \* the temporary file beside it
          lock,   \* who holds the lock file
          pc,     \* where each process is in its save
          asked,  \* what it saves
          body    \* what it will write

persistVars == <<file, tmp, lock, pc, asked, body>>

Store == INSTANCE AtomicStore

Gone == [form |-> "missing", at |-> [k \in Keys |-> Absent]]
Torn == [form |-> "torn", at |-> [k \in Keys |-> Absent]]

PersistInit ==
    /\ Store!Init
    /\ tmp = Gone /\ lock = Nobody
    /\ pc = [p \in Processes |-> "idle"]
    /\ body = [p \in Processes |-> Gone]

Goto(p, at) == pc' = [pc EXCEPT ![p] = at]

\* The save returns: its locals go, and the lock file is closed.
Return(p) ==
    /\ Goto(p, "idle")
    /\ body' = [body EXCEPT ![p] = Gone]
    /\ asked' = [asked EXCEPT ![p] = Absent]
    /\ lock' = IF lock = p THEN Nobody ELSE lock

-----------------------------------------------------------------------------

Ask(p, b) ==
    /\ pc[p] = "idle" /\ Goto(p, "open")
    /\ asked' = [asked EXCEPT ![p] = b]
    /\ UNCHANGED <<file, tmp, lock, body>>

\* Mutant: the lock is taken from whoever has it.
Lock_Shared(p) ==
    /\ pc[p] = "open" /\ Goto(p, "locked")
    /\ lock' = p
    /\ UNCHANGED <<file, tmp, asked, body>>

Lock(p) ==
    /\ pc[p] = "open" /\ Goto(p, "locked")
    /\ lock = Nobody /\ lock' = p
    /\ UNCHANGED <<file, tmp, asked, body>>

\* Mutant: a file that does not parse counts as an empty store.
Merge_Default(p) ==
    /\ pc[p] = "locked" /\ Goto(p, "create")
    /\ body' = [body EXCEPT ![p] = Store!Merged(file, KeyOf[p], asked[p])]
    /\ UNCHANGED <<file, tmp, lock, asked>>

\* Read the store and put the bucket in, if it is a store.
Merge(p) ==
    /\ pc[p] = "locked" /\ file.form # "bad" /\ Goto(p, "create")
    /\ body' = [body EXCEPT ![p] = Store!Merged(file, KeyOf[p], asked[p])]
    /\ UNCHANGED <<file, tmp, lock, asked>>

\* An old temporary file, whoever left it, is cut to nothing.
Create(p) ==
    /\ pc[p] = "create" /\ Goto(p, "write")
    /\ tmp' = Torn
    /\ UNCHANGED <<file, lock, asked, body>>

Write(p) ==
    /\ pc[p] = "write" /\ Goto(p, "rename")
    /\ tmp' = body[p]
    /\ UNCHANGED <<file, lock, asked, body>>

Rename(p) ==
    /\ pc[p] = "rename" /\ Return(p)
    /\ file' = tmp /\ tmp' = Gone

\* Mutant: a save that fails before it writes keeps the lock.
Refuse_Locked(p) ==
    /\ pc[p] \in {"open", "locked"} /\ Goto(p, "idle")
    /\ asked' = [asked EXCEPT ![p] = Absent]
    /\ UNCHANGED <<file, tmp, lock, body>>

\* The lock or the store cannot be opened, or the file is no store.
Refuse(p) ==
    /\ pc[p] \in {"open", "locked"} /\ Return(p)
    /\ UNCHANGED <<file, tmp>>

\* An I/O error removes the temporary file, if it can.
WriteFails(p) ==
    /\ pc[p] \in {"create", "write", "rename"} /\ Return(p)
    /\ tmp' \in {tmp, Gone}
    /\ UNCHANGED file

\* The process dies; the system closes the lock file.
Crash(p) ==
    /\ pc[p] # "idle" /\ Return(p)
    /\ UNCHANGED <<file, tmp>>

PersistNext ==
    \/ \E p \in Processes, b \in Buckets : Ask(p, b)
    \/ \E p \in Processes : Lock(p)
    \/ \E p \in Processes : Merge(p)
    \/ \E p \in Processes : Create(p)
    \/ \E p \in Processes : Write(p)
    \/ \E p \in Processes : Rename(p)
    \/ \E p \in Processes : Refuse(p)
    \/ \E p \in Processes : WriteFails(p)
    \/ \E p \in Processes : Crash(p)

PersistSafe == PersistInit /\ [][PersistNext]_persistVars

\* Straight-line code: a process that holds the lock goes on, one way or
\* the other.  Nothing says which waiting process gets the lock.
GoesOn(p) == Merge(p) \/ Create(p) \/ Write(p) \/ Rename(p) \/ Refuse(p) \/ WriteFails(p)

PersistFairness == \A p \in Processes : WF_persistVars(lock = p /\ GoesOn(p))

PersistSpec == PersistSafe /\ PersistFairness

-----------------------------------------------------------------------------
(* Properties *)

Contents(forms) == [form : forms, at : [Keys -> Buckets \union {Absent}]]

\* The state keeps its shape; in particular a reader, which takes no lock,
\* never finds the store half written.
PersistTypeOK ==
    /\ file \in Contents({"missing", "bad", "json"})
    /\ tmp \in Contents({"missing", "torn", "json"})
    /\ lock \in Processes \union {Nobody}
    /\ pc \in [Processes -> {"idle", "open", "locked", "create", "write", "rename"}]
    /\ asked \in [Processes -> Buckets \union {Absent}]
    /\ body \in [Processes -> Contents({"missing", "json"})]

Inside(p) == pc[p] \in {"locked", "create", "write", "rename"}

\* What a process is about to write is the store as it is now with its own
\* bucket replaced: no other save came in between, so none is lost.  And
\* what it renames is that, not what another or a dead process left.
MergeCurrent ==
    \A p \in Processes :
        /\ Inside(p) => lock = p
        /\ pc[p] \in {"create", "write", "rename"} =>
               file.form # "bad" /\ body[p] = Store!Merged(file, KeyOf[p], asked[p])
        /\ pc[p] = "rename" => tmp = body[p]

\* Whatever fails, and whoever dies, each save happens in one step or not at
\* all.
ImplementsAtomicStore == Store!Spec

\* The lock is given back on every path.
LockFreed == \A p \in Processes : lock = p ~> lock # p
=============================================================================
