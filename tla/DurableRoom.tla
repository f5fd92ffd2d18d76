----------------------------- MODULE DurableRoom -----------------------------
(***************************************************************************)
(* What the backend promises about the saved state of a room: while        *)
(* someone holds its lease or nobody does, the saved state only ever grows *)
(* by extension, and what a client was told is saved stays in it, until    *)
(* the room is given up or its code is given to another room.              *)
(***************************************************************************)
EXTENDS Naturals, Sequences, SequencesExt

VARIABLES saved,     \* the updates in the saved state, oldest first
          leased,    \* somebody's lease is running
          promised   \* the updates clients were told are saved

vars == <<saved, leased, promised>>

Init == saved = <<>> /\ leased = FALSE /\ promised = {}

\* A save, with or without the answer to the client whose update is in it.
Save ==
  /\ leased
  /\ saved' \in Seq(Nat) /\ IsPrefix(saved, saved')
  /\ promised' \subseteq promised \cup Range(saved')
  /\ promised \subseteq promised'
  /\ UNCHANGED leased

\* A lease ends; another begins, with what was saved.
Lapse == leased /\ leased' = FALSE /\ UNCHANGED <<saved, promised>>
Take == ~leased /\ leased' = TRUE /\ UNCHANGED <<saved, promised>>

\* The code goes to a new room once nobody holds the old one.
Reserve == ~leased /\ leased' = TRUE /\ saved' = <<>> /\ promised' = {}

\* Nobody has used the room for a long time; only then may it be deleted.
Abandon == promised' = {} /\ UNCHANGED <<saved, leased>>
Delete == promised = {} /\ saved' = <<>> /\ leased' \in {leased, FALSE} /\ UNCHANGED promised

Next == Save \/ Lapse \/ Take \/ Reserve \/ Abandon \/ Delete

Spec == Init /\ [][Next]_vars
=============================================================================
