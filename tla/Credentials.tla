------------------------------ MODULE Credentials ------------------------------
(***************************************************************************)
(* The Wi-Fi credentials in flash (nvsManager.cpp): their number and their *)
(* array are two keys, written one after the other, and two tasks change   *)
(* them without a lock, the HTTPS server and the event loop, which forgets *)
(* the credential of a refused connection.                                 *)
(*                                                                         *)
(* External: a write to NVS is durable when it returns; a blob that is     *)
(* longer than the buffer it is read into is an error, and one that is     *)
(* shorter leaves the rest of the buffer as malloc gave it.                *)
(***************************************************************************)
EXTENDS Naturals, Sequences, SequencesExt

CONSTANTS
  SSID,
  MAX_CREDENTIAL_COUNT   \* 5

ASSUME CredentialAssumption == MAX_CREDENTIAL_COUNT \in Nat

VARIABLES
  count, blob,           \* the two keys; a missing count reads as 0
  op                     \* what each task is doing to them

(* Observers: the SSIDs added with success that nobody has deleted or      *)
(* begun to delete since; a deletion was cut short between its two writes, *)
(* or the tasks have written over one another.                             *)
VARIABLES kept, spoiled

credVars == <<count, blob, op, kept, spoiled>>

CredentialTask == {"http", "event"}
Garbage == "garbage"
NoOp == [doing |-> "nothing"]
Op(doing, s, at, list) == [doing |-> doing, ssid |-> s, at |-> at, list |-> list]
Doing(t, doing, at) == op[t].doing = doing /\ op[t].at = at
Busy(t) == op[t] # NoOp

CredInit ==
  /\ count = 0 /\ blob = [there |-> FALSE, list |-> <<>>]
  /\ op = [t \in CredentialTask |-> NoOp]
  /\ kept = {} /\ spoiled = FALSE

-----------------------------------------------------------------------------
(* Reading.                                                                *)

Fits == Len(blob.list) <= count

(* What a buffer for n credentials holds after the array has been read:    *)
(* the rest of it is whatever g was on the heap.                           *)
Buffer(n, g) == [i \in 1 .. n |-> IF i <= Len(blob.list) THEN blob.list[i] ELSE g]

Heap == SSID \cup {Garbage}
Saved(g) == IF blob.there THEN Buffer(count, g) ELSE <<>>

(* A list that cannot be read has no credential.                           *)
hasCredential(s, g) == Fits /\ s \in ToSet(Saved(g))

-----------------------------------------------------------------------------
(* addCredential and deleteCredentialWithSSID: look, load, write the       *)
(* number, write the array.                                                *)

Moves(t, at, list) == op' = [op EXCEPT ![t] = Op(@.doing, @.ssid, at, list)]
Ends(t) == op' = [op EXCEPT ![t] = NoOp]

addCredential(t, s) ==
  /\ ~Busy(t) /\ op' = [op EXCEPT ![t] = Op("add", s, "look", <<>>)]
  /\ UNCHANGED <<count, blob, kept, spoiled>>

deleteCredentialWithSSID(t, s) ==
  /\ ~Busy(t) /\ op' = [op EXCEPT ![t] = Op("delete", s, "look", <<>>)]
  /\ kept' = kept \ {s} /\ UNCHANGED <<count, blob, spoiled>>

Look(t) ==
  /\ Busy(t) /\ op[t].at = "look"
  /\ \E g \in Heap :
       IF hasCredential(op[t].ssid, g) = (op[t].doing = "delete")
       THEN Moves(t, "load", <<>>) ELSE Ends(t)
  /\ UNCHANGED <<count, blob, kept, spoiled>>

HasRoom == count < MAX_CREDENTIAL_COUNT

LoadForAdd(t) ==
  /\ Doing(t, "add", "load")
  /\ IF HasRoom /\ (blob.there => Fits)
     THEN \E g \in Heap : Moves(t, "count", Append(Buffer(count, g), op[t].ssid))
     ELSE Ends(t)
  /\ UNCHANGED <<count, blob, kept, spoiled>>

LastIndex(s, list) == CHOOSE i \in DOMAIN list :
  list[i] = s /\ \A j \in DOMAIN list : list[j] = s => j <= i

LoadForDelete(t) ==
  /\ Doing(t, "delete", "load")
  /\ IF Fits
     THEN \E g \in Heap :
            /\ op[t].ssid \in ToSet(Saved(g))
            /\ Moves(t, "count", RemoveAt(Saved(g), LastIndex(op[t].ssid, Saved(g))))
     ELSE Ends(t)
  /\ UNCHANGED <<count, blob, kept, spoiled>>

(* The credential has gone since it was looked for: the list's element     *)
(* before the first is erased.                                             *)
ErasesNothing(t) ==
  /\ Doing(t, "delete", "load") /\ Fits
  /\ \E g \in Heap : op[t].ssid \notin ToSet(Saved(g))

(* Another task is about to write what it has loaded before. *)
Crosses(t) == \E u \in CredentialTask \ {t} : Busy(u) /\ op[u].at \in {"count", "blob"}

WriteCount(t) ==
  /\ Busy(t) /\ op[t].at = "count" /\ count' = Len(op[t].list)
  /\ Moves(t, "blob", op[t].list)
  /\ spoiled' = (spoiled \/ Crosses(t)) /\ UNCHANGED <<blob, kept>>

WriteBlob(t) ==
  /\ Busy(t) /\ op[t].at = "blob"
  /\ blob' = [there |-> TRUE, list |-> op[t].list] /\ Ends(t)
  /\ kept' = IF op[t].doing = "add" THEN kept \cup {op[t].ssid} ELSE kept \ {op[t].ssid}
  /\ spoiled' = (spoiled \/ Crosses(t)) /\ UNCHANGED count

(* NVS refuses a write: what has been written before it stays.             *)
HalfDeleted(t) == Busy(t) /\ Doing(t, "delete", "blob")
WriteFails(t) ==
  /\ Busy(t) /\ op[t].at \in {"count", "blob"} /\ Ends(t)
  /\ spoiled' = (spoiled \/ HalfDeleted(t)) /\ UNCHANGED <<count, blob, kept>>

(* The supply fails, or the device restarts: RAM is lost.                  *)
CredRestart ==
  /\ op' = [t \in CredentialTask |-> NoOp]
  /\ spoiled' = (spoiled \/ \E t \in CredentialTask : HalfDeleted(t))
  /\ UNCHANGED <<count, blob, kept>>

(* Mutant: the array is written before the number. *)
CredStepBug(t) ==
  \/ Look(t) \/ LoadForAdd(t) \/ LoadForDelete(t)
  \/ /\ Busy(t) /\ op[t].at = "count" /\ blob' = [there |-> TRUE, list |-> op[t].list]
     /\ Moves(t, "blob", op[t].list)
     /\ spoiled' = (spoiled \/ Crosses(t)) /\ UNCHANGED <<count, kept>>
  \/ /\ Busy(t) /\ op[t].at = "blob" /\ count' = Len(op[t].list) /\ Ends(t)
     /\ kept' = IF op[t].doing = "add" THEN kept \cup {op[t].ssid} ELSE kept \ {op[t].ssid}
     /\ spoiled' = (spoiled \/ Crosses(t)) /\ UNCHANGED blob

CredStep(t) == Look(t) \/ LoadForAdd(t) \/ LoadForDelete(t) \/ WriteCount(t) \/ WriteBlob(t)

-----------------------------------------------------------------------------
CredTypeOK ==
  /\ count \in 0 .. MAX_CREDENTIAL_COUNT
  /\ blob.there \in BOOLEAN /\ Len(blob.list) <= MAX_CREDENTIAL_COUNT
  /\ ToSet(blob.list) \subseteq Heap
  /\ kept \subseteq SSID /\ spoiled \in BOOLEAN

(* A credential that was added with success can be read until somebody     *)
(* deletes it: through every other addition, whether it succeeds, fails    *)
(* half way or is cut short by the supply.  Only while a deletion is       *)
(* between its writes is the list unreadable (and for good, if it never    *)
(* gets to the second: the store is then spoiled).                         *)
CredentialsKept ==
  (~spoiled /\ \A t \in CredentialTask : ~HalfDeleted(t)) =>
    Fits /\ kept \subseteq ToSet(blob.list)
=============================================================================
