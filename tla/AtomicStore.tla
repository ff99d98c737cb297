----------------------------- MODULE AtomicStore -----------------------------
(***************************************************************************)
(* What a store file promises to the processes that share it: a save puts  *)
(* the bucket of its process into the store in one step, every other       *)
(* bucket stays, and a file that is no store of this kind is not touched.  *)
(* A save may fail, and then nothing happened.  Persist implements this.   *)
(***************************************************************************)
CONSTANTS Processes,
          Keys,      \* the buckets: workspaces, and __legacy__
          KeyOf,     \* the workspace of each process
          Buckets,   \* contents of one bucket
          Absent     \* there is no such bucket

VARIABLES file,      \* the store: its form, and the buckets in it
          asked      \* what each process is saving, Absent if nothing

Merged(f, k, b) == [form |-> "json", at |-> [f.at EXCEPT ![k] = b]]

\* Missing files start empty; a foreign file stays as it is.
Initial ==
    LET empty == [k \in Keys |-> Absent]
    IN [form : {"missing", "bad"}, at : {empty}]
         \union [form : {"json"}, at : [Keys -> Buckets \union {Absent}]]

Init == file \in Initial /\ asked = [p \in Processes |-> Absent]

Ask(p, b) ==
    /\ asked[p] = Absent
    /\ asked' = [asked EXCEPT ![p] = b]
    /\ UNCHANGED file

Save(p) ==
    /\ asked[p] # Absent /\ file.form # "bad"
    /\ file' = Merged(file, KeyOf[p], asked[p])
    /\ asked' = [asked EXCEPT ![p] = Absent]

Fail(p) ==
    /\ asked[p] # Absent
    /\ asked' = [asked EXCEPT ![p] = Absent]
    /\ UNCHANGED file

Next == \E p \in Processes : (\E b \in Buckets : Ask(p, b)) \/ Save(p) \/ Fail(p)

Spec == Init /\ [][Next]_<<file, asked>>
=============================================================================
