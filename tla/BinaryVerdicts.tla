--------------------------- MODULE BinaryVerdicts ---------------------------
(* binary_verdicts.rs.  One slot of the table that counts, for an extension,  *)
(* the files the binary probe rejected and accepted: an atomic 32-bit word    *)
(* whose halves are two counters (the slots are independent, so one stands    *)
(* for all).  And the set of the fingerprints of rejected files, looked up    *)
(* through a bucket index and merged with the new ones when it is saved.  A   *)
(* fingerprint is a number below 2^Width; that two files never share one is   *)
(* assumed, as the code does.                                                 *)
EXTENDS Integers, FiniteSets

CONSTANTS Word,         \* one more than a half can hold (2^16)
          Cap,          \* CAP, the count at which a slot is aged
          SettledAt,    \* SETTLED_AT, after which only a sample is counted
          MaxKept,      \* MAX_KEPT, above which entries of no use are dropped
          Width,        \* the bits of a fingerprint (64)
          PerBucket     \* the entries a bucket of the index is meant to hold (4)

ASSUME VerdictAssumption ==
    /\ Word \in Nat /\ Cap \in Nat \ {0} /\ Cap < Word
    /\ SettledAt \in Nat \ {0} /\ MaxKept \in Nat
    /\ Width \in Nat \ {0} /\ PerBucket \in Nat \ {0}

Slots == [binary : 0 .. Word - 1, text : 0 .. Word - 1]

NoCounts == [binary |-> 0, text |-> 0]

Count(slot, rejected) == IF rejected THEN slot.binary ELSE slot.text

(* fetch_add on the packed word: a full low half carries into the high one,   *)
(* and the high one wraps.                                                    *)
Add(slot, rejected) ==
    IF rejected
    THEN [slot EXCEPT !.binary = (@ + 1) % Word]
    ELSE [binary |-> IF slot.text = Word - 1 THEN (slot.binary + 1) % Word
                                             ELSE slot.binary,
          text |-> (slot.text + 1) % Word]

(* record: what a slot read as `slot` is not bound to count any more; the     *)
(* inode number decides whether it is sampled all the same.                   *)
Settled(slot) == slot.binary + slot.text >= SettledAt

(* Mutant: the counter of rejected files is never aged.                       *)
AgesTextOnly(slot, rejected) == ~rejected /\ slot.text >= Cap

Ages(slot, rejected) == Count(slot, rejected) >= Cap

(* Mutant: the halves are shifted the wrong way.                              *)
AgedLeft(slot) == [binary |-> 2 * slot.binary, text |-> 2 * slot.text]

Aged(slot) == [binary |-> slot.binary \div 2, text |-> slot.text \div 2]

(* parse: a saved slot comes back with its total scaled down.                 *)
Scale(slot) ==
    LET s == (slot.binary + slot.text) \div (2 * SettledAt)
    IN  IF s = 0 THEN 1 ELSE s

Scaled(slot) ==
    [binary |-> slot.binary \div Scale(slot), text |-> slot.text \div Scale(slot)]

Fingerprints == 0 .. 2^Width - 1

(* Where a fingerprint stands among the sorted ones.                          *)
Position(known, k) == Cardinality({j \in known : j < k})

(* from_sorted: for each bucket, each value of the top bits, the position of  *)
(* its first fingerprint.                                                     *)
IndexOf(known) ==
    LET enough == {b \in 1 .. Width : 2^b * PerBucket >= Cardinality(known)}
        bits   == IF enough = {} THEN Width
                  ELSE CHOOSE b \in enough : \A c \in enough : b <= c
        size   == 2^(Width - bits)
    IN  [size |-> size, first |-> [b \in 0 .. 2^bits |-> Position(known, b * size)]]

(* find: only the positions of the fingerprint's bucket are looked at.        *)
Find(known, f) ==
    LET index == IndexOf(known)
        b     == f \div index.size
    IN  \E k \in known :
            k = f /\ Position(known, k) \in index.first[b] .. index.first[b + 1] - 1

(* Mutant: over the limit every old entry goes, also one a file matched.      *)
MergeForgetsUsed(known, used, fresh) ==
    fresh \cup IF Cardinality(known) + Cardinality(fresh) <= MaxKept THEN known ELSE {}

(* merge: an old entry is dropped only when there are too many, and then only *)
(* if no file matched it in this run.                                         *)
Merge(known, used, fresh) ==
    fresh \cup IF Cardinality(known) + Cardinality(fresh) <= MaxKept THEN known ELSE used
=============================================================================
