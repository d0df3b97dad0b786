----------------------------- MODULE Recipients -----------------------------
(***************************************************************************)
(* services/notification_recipients.py. A recipients field is the sequence *)
(* of words that splitting it on commas, semicolons and white space gives. *)
(* A word is the address it spells, in lower case, or Null when it is not  *)
(* an address, and the spelling it was typed in.                           *)
(***************************************************************************)
EXTENDS GridModels, SequencesExt

DedupeSpellings(words) ==       \* mutant: the case is not folded
    FoldLeft(LAMBDA kept, w :
               IF w.address = Null \/ w \in Range(kept) THEN kept ELSE Append(kept, w),
             <<>>, words)

(* Words that are no address go, and so does every later spelling of an    *)
(* address; the first spelling and the order stay.                         *)
DedupeEmails(words) ==
    FoldLeft(LAMBDA kept, w :
               IF w.address = Null \/ w.address \in {k.address : k \in Range(kept)}
               THEN kept ELSE Append(kept, w),
             <<>>, words)

ParseRecipients(text) == IF text = Null THEN <<>> ELSE DedupeEmails(text)

SpelledUserId(recipients) ==    \* mutant: neither sorted nor lower-cased
    <<"email-ingest", recipients>>

(* A digest of the sorted addresses in lower case, taken to be injective.  *)
SyntheticEmailUserId(recipients) ==
    <<"email-ingest", {w.address : w \in Range(recipients)}>>
=============================================================================
