------------------------------- MODULE Pricing -------------------------------
(***************************************************************************)
(* What tokens cost (pricing.py) and which model is asked (route.py).      *)
(* Everything here is an operator.  Prices are in cents for a million      *)
(* tokens, so that costs are in millionths of a cent and nothing is        *)
(* rounded.                                                                *)
(***************************************************************************)
EXTENDS Wire

CONSTANTS
  Prices,     \* key -> [input, output, read, write]; the PRICES table
  KeysOf,     \* model -> the keys its normalized name starts with
  KeyLength,  \* key -> its length
  CheapModel, \* api -> the model of _CHEAP
  Strong,     \* the models whose name has one of _STRONG
  LargeBody,  \* 8000 characters in difficulty()
  ShortText   \* 240 characters in difficulty()

ASSUME PricingAssumption ==
  /\ \A k \in DOMAIN Prices : Prices[k] \in [input : Nat, output : Nat, read : Nat, write : Nat]
  /\ \A m \in DOMAIN KeysOf : IsFiniteSet(KeysOf[m]) /\ KeysOf[m] \subseteq DOMAIN Prices
  /\ KeyLength \in [DOMAIN Prices -> Nat]

\* price_for: the longest key that is a prefix.
Matching(model) == IF model \in DOMAIN KeysOf THEN KeysOf[model] ELSE {}
PriceKey(model) ==
  CHOOSE k \in Matching(model) : \A j \in Matching(model) : KeyLength[j] <= KeyLength[k]

\* cost_usd: the cached part is priced at its own rate; unknown models at nothing.
CostUsd(model, usage) ==
  LET p == Prices[PriceKey(model)]
  IN IF Matching(model) = {} THEN [total |-> 0, priced |-> FALSE]
     ELSE [total |-> usage.input * p.input + usage.output * p.output
                       + usage.read * p.read + usage.written * p.write,
           priced |-> TRUE]

\* _last_user_text, which the Responses API has elsewhere
LastUserChars(body) ==
  LET users == {i \in DOMAIN body.turns : body.turns[i].role = "user"}
      parts == body.turns[Max(users)].parts
  IN IF users = {} \/ body.api = "responses" THEN 0
     ELSE FoldSeq(LAMBDA p, n : Chars(p.text) + 1 + n, 0, Texts(parts, "text"))

\* difficulty, in tenths: tools or a large body are hard; an easy phrase, a
\* short prompt, a small answer are easier.
Difficulty(body, hints) ==
  LET Minus(easier, n) == IF easier THEN n ELSE 0
      chars == FoldSeq(LAMBDA p, n : Chars(p.text) + n, 0, body.system \o AllParts(body))
  IN IF body.tools # <<>> \/ chars > LargeBody THEN 10
     ELSE Less(5, Minus("easy" \in hints /\ body.api # "responses", 4)
                    + Minus(LastUserChars(body) < ShortText, 2)
                    + Minus("small" \in hints, 2))

\* decide: the model to ask instead, or None.  The Responses API has OpenAI's.
Target(body, model, hints) ==
  LET cheap == CheapModel[body.api]
  IN IF model \in Strong /\ cheap # model /\ 10 * Difficulty(body, hints) <= 15
     THEN cheap ELSE None

\* saving_usd
SavingUsd(original, target, usage) ==
  Less(CostUsd(original, usage).total, CostUsd(target, usage).total)
==============================================================================
