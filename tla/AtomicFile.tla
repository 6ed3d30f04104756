----------------------------- MODULE AtomicFile -----------------------------
(***************************************************************************)
(* What atomic_write_bytes promises its callers: a file that holds one     *)
(* version after another, never a mixture.  A power loss may bring back a  *)
(* version the file had since it was last settled on disk.                 *)
(***************************************************************************)
EXTENDS Naturals

CONSTANT MaxVersion

VARIABLES
  value,  \* the version a reader finds, 0 if there is no file
  past    \* the versions a power loss can leave

avars == <<value, past>>

AInit ==
  /\ value = 0
  /\ past = {0}

\* A newer version takes the place of the one there is.
Replace ==
  /\ value' \in value + 1..MaxVersion
  /\ past' = past \cup {value'}

Settle ==
  /\ past' = {value}
  /\ UNCHANGED value

Lose ==
  /\ value' \in past
  /\ past' = {value'}

ANext == Replace \/ Settle \/ Lose

ASpec == AInit /\ [][ANext]_avars
=============================================================================
