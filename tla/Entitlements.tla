---------------------------- MODULE Entitlements ----------------------------
(***************************************************************************)
(* What a subscriber is promised for a charge, whatever listeners, queue,  *)
(* sweep and crashes do underneath. Each charge of a key (a number and a   *)
(* product) buys at most one entitlement, of the length the product has,   *)
(* or is refused. An entitlement ends once and for all, and only while a   *)
(* charge of its key is still owed one, while an unsubscription of its key *)
(* is under way, or long after its end. SubscriptionProcessing implements  *)
(* it.                                                                     *)
(***************************************************************************)
EXTENDS Integers, Sequences

CONSTANTS
  Keys,
  Validity,  \* key -> days it is entitled to (0: no end)
  Day,       \* length of a day
  Grace,     \* how long an entitlement is kept after its end
  Never      \* the end of one without end

VARIABLES
  entries,   \* entitlements in the order they were given or refused
  owed,      \* key -> charges that have bought nothing yet
  leaving,   \* keys an unsubscription of which is under way
  clock

entitlementVars == <<entries, owed, leaving, clock>>

EntitlementsInit ==
  /\ entries = << >>
  /\ owed = [k \in Keys |-> 0]
  /\ leaving = {}
  /\ clock = 0

Until(k) == IF Validity[k] > 0 THEN clock + Validity[k] * Day ELSE Never

Charge(k) ==
  /\ owed' = [owed EXCEPT ![k] = @ + 1]
  /\ UNCHANGED <<entries, leaving, clock>>

\* The operator may report that the charge did not succeed.
Give(k) ==
  /\ owed[k] > 0
  /\ \E state \in {"given", "refused"} :
       entries' = Append(entries, [of |-> k, state |-> state, until |-> Until(k)])
  /\ owed' = [owed EXCEPT ![k] = @ - 1]
  /\ UNCHANGED <<leaving, clock>>

MayEnd(e) ==
  \/ owed[e.of] > 0
  \/ e.of \in leaving
  \/ e.until # Never /\ e.until + Grace <= clock

End(i) ==
  /\ entries[i].state = "given"
  /\ MayEnd(entries[i])
  /\ entries' = [entries EXCEPT ![i].state = "ended"]
  /\ UNCHANGED <<owed, leaving, clock>>

StartLeaving(k) ==
  /\ leaving' = leaving \cup {k}
  /\ UNCHANGED <<entries, owed, clock>>

\* One unsubscription is over, or a crash ends them all.
StopLeaving ==
  /\ leaving' \subseteq leaving
  /\ UNCHANGED <<entries, owed, clock>>

Elapse ==
  /\ clock' = clock + 1
  /\ UNCHANGED <<entries, owed, leaving>>

EntitlementsNext ==
  \/ \E k \in Keys : Charge(k) \/ Give(k) \/ StartLeaving(k)
  \/ \E i \in DOMAIN entries : End(i)
  \/ StopLeaving \/ Elapse

EntitlementsSpec == EntitlementsInit /\ [][EntitlementsNext]_entitlementVars
=============================================================================
