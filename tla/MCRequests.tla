----------------------------- MODULE MCRequests -----------------------------
(* What one member's requests share in the API, and what its tabs share in   *)
(* the browser and the wallet. These parts share no state: a behaviour       *)
(* exercises one of them, chosen at the start, by two requests or two tabs.  *)
EXTENDS Activations, Referrals, Accounts, Browser, Checkout, TLC

CONSTANTS p, q, root, b, c, d, Parts

VARIABLE part

MCTiers == [five |-> 5, fifty |-> 50, high |-> 250, top |-> 500]
MCRequires == [top |-> "high"]

requestVars ==
    <<part, activationVars, treeVars, accountVars, browserVars, checkoutVars>>

\* Only the part that reads it has a choice of the store and of the market.
RequestsInit ==
    /\ part \in Parts
    /\ ActivationsInit /\ TreeInit /\ AccountsInit /\ BrowserInit /\ CheckoutInit
    /\ part # "sessions" => store = "table"
    /\ part # "checkout" => ~head.own /\ \A a \in Asks : head.price <= a

RequestsNext ==
    /\ UNCHANGED part
    /\ \/ /\ part = "activations" /\ ActivationsNext
          /\ UNCHANGED <<treeVars, accountVars, browserVars, checkoutVars>>
       \/ /\ part = "tree" /\ TreeNext
          /\ UNCHANGED <<activationVars, accountVars, browserVars, checkoutVars>>
       \/ /\ part = "sessions" /\ Sessions
          /\ UNCHANGED <<activationVars, treeVars, browserVars, checkoutVars>>
       \/ /\ part = "custody" /\ \E w \in Doors : Custody(w)
          /\ UNCHANGED <<activationVars, treeVars, browserVars, checkoutVars>>
       \/ /\ part = "browser" /\ BrowserNext
          /\ UNCHANGED <<activationVars, treeVars, accountVars, checkoutVars>>
       \/ /\ part = "checkout" /\ CheckoutNext
          /\ UNCHANGED <<activationVars, treeVars, accountVars, browserVars>>

RequestsSpec == RequestsInit /\ [][RequestsNext]_requestVars

\* With all members there is one rewire, recount or lost call, else two.
TreeFocus == joined = Members => rare <= 1

\* An account whose status was changed has two tokens at most, else three.
SessionsFocus == statuses > 0 => Len(tokens) <= 2

Symmetry == Permutations({p, q}) \cup Permutations({b, c, d})
=============================================================================
