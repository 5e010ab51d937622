----------------------------- MODULE StreamMask -----------------------------
(***************************************************************************)
(* Masking of streamed text: Subscription::take and flush in               *)
(* crates/domain/src/invocable/stream.rs over redact in domain/src/redact.rs. *)
(*                                                                         *)
(* Text arrives in chunks cut anywhere.  Each is masked together with a    *)
(* held-back tail, and all but the longest secret's length less one is     *)
(* released.  Letters are abstract; the mask is three letters of its own,   *)
(* as in the code, so it can be cut by the hold-back too.                   *)
(***************************************************************************)
EXTENDS Naturals, Sequences, SequencesExt, FiniteSetsExt

CONSTANTS
    Letters,    \* letters of texts and secrets
    MaxSecret,  \* bound: length of a secret
    MaxChunk,   \* bound: length of a chunk
    MaxText     \* bound: length of a text

Star == "*"
MASK == <<Star, Star, Star>>

MaskAssumption ==
    /\ Star \notin Letters
    /\ MaxSecret \in Nat /\ MaxChunk \in Nat /\ MaxText \in Nat

VARIABLES
    secrets,    \* the dispatcher's secrets, in its order
    said,       \* the text the work wrote since the last flush
    carry,      \* Subscription::carry
    shown,      \* the text released since the last flush
    flushed     \* the text just flushed: as said, as shown

vars == <<secrets, said, carry, shown, flushed>>

Nothing == [said |-> <<>>, shown |-> <<>>]
Words(n) == UNION {[1 .. k -> Letters] : k \in 1 .. n}

-----------------------------------------------------------------------------
\* The secret stands at position i of the text.
StandsAt(secret, text, i) ==
    /\ i + Len(secret) - 1 <= Len(text)
    /\ SubSeq(text, i, i + Len(secret) - 1) = secret

Occurs(secret, text) == \E i \in 1 .. Len(text) : StandsAt(secret, text, i)

\* str::replace: occurrences from the left that do not overlap.
Replace(text, secret) ==
    LET from[i \in 1 .. Len(text) + 1] ==
            IF i > Len(text) THEN <<>>
            ELSE IF StandsAt(secret, text, i) THEN MASK \o from[i + Len(secret)]
            ELSE <<text[i]>> \o from[i + 1]
    IN from[1]

\* redact: each secret in turn.
redact(text, list) == FoldLeft(Replace, text, list)

\* Mutation of Hold: as much as the shortest secret needs.
Hold_Shortest ==
    Min({0} \cup {Len(secrets[i]) - 1 : i \in DOMAIN secrets})

\* How much of the masked text is held back.
Hold == Max({0} \cup {Len(secrets[i]) - 1 : i \in DOMAIN secrets})

-----------------------------------------------------------------------------
Init ==
    /\ secrets \in {<<s>> : s \in Words(MaxSecret)}
                   \cup {<<s, t>> : s, t \in Words(MaxSecret)}
    /\ said = <<>> /\ carry = <<>> /\ shown = <<>>
    /\ flushed = Nothing

\* take, for a chunk of text: masked with what was held back; what cannot be
\* the start of a secret any more is released.
TakeText(chunk) ==
    LET masked == redact(carry \o chunk, secrets)
        cut == IF Len(masked) > Hold THEN Len(masked) - Hold ELSE 0 IN
    /\ Len(said) + Len(chunk) <= MaxText
    /\ said' = said \o chunk
    /\ shown' = shown \o SubSeq(masked, 1, cut)
    /\ carry' = SubSeq(masked, cut + 1, Len(masked))
    /\ flushed' = Nothing
    /\ UNCHANGED secrets

\* take, for anything that is not text and for the end: the tail goes first.
Flush ==
    /\ said # <<>>
    /\ flushed' = [said |-> said, shown |-> shown \o redact(carry, secrets)]
    /\ said' = <<>> /\ carry' = <<>> /\ shown' = <<>>
    /\ UNCHANGED secrets

Next == Flush \/ \E chunk \in Words(MaxChunk) : TakeText(chunk)

Spec == Init /\ [][Next]_vars

-----------------------------------------------------------------------------
(* Properties.                                                             *)

\* No secret is ever shown whole, however the text was cut into chunks and
\* whichever other secret overlaps it.  And with one secret a stream shows
\* exactly what masking the whole text at once would: "streaming is an
\* improvement a surface may decline, never a second behavior".  (With several,
\* which of two overlapping secrets is masked first may depend on the cut.)
NoSecretShown ==
    /\ \A i \in DOMAIN secrets :
          ~Occurs(secrets[i], shown) /\ ~Occurs(secrets[i], flushed.shown)
    /\ Len(secrets) = 1 =>
          /\ shown \o carry = redact(said, secrets)
          /\ flushed.shown = redact(flushed.said, secrets)
=============================================================================
