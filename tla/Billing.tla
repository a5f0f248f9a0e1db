-------------------------------- MODULE Billing --------------------------------
(***************************************************************************)
(* Subscriptions: a checkout opens a session at Stripe for an account, and *)
(* the webhook activates the account once Stripe says that it is complete. *)
(* Stripe delivers an event until it is answered with success, perhaps     *)
(* again after that, and in any order.  Accounts live in the ORM database, *)
(* which two of the manifests keep outside their volume: each container    *)
(* begins with none and gives out the same ids, and while a deployment     *)
(* rolls the old one and the new one serve side by side.                   *)
(*                                                                         *)
(* A container serves one request at a time, and a session commits at the  *)
(* end of its block, so a request is one step: either all of it, or what   *)
(* it did at Stripe alone.                                                 *)
(***************************************************************************)
EXTENDS Naturals, Sequences

CONSTANTS Persons,        \* who has an account, by email; the collector's among them
          Plans,          \* the tiers that are paid for
          MaxSessions,    \* bound on the checkout sessions
          MaxCustomers,   \* bound on Stripe's customers
          MaxDeployments  \* bound on the containers, one after the other

ASSUME BillingConstants ==
    /\ MaxSessions \in Nat /\ MaxCustomers \in Nat /\ MaxDeployments \in Nat \ {0}

VARIABLES users,       \* of each container, the accounts, by id
          live,        \* the containers that serve
          deployment,  \* the newest of them
          customers,   \* Stripe: how many customers it has, their ids
          sessions,    \* Stripe: the checkout sessions whose URL was answered
          answered,    \* Stripe: the completed sessions answered with success
          activated    \* history: which session activated an account, and where

stripe == <<customers, sessions, answered>>
vars == <<users, live, deployment, stripe, activated>>

None == 0
Inactive == [tier |-> "developer", customer |-> None, subscription |-> None]
Deployments == 1..MaxDeployments
Ids(d) == DOMAIN users[d]
Completed == {s \in DOMAIN sessions : sessions[s].completed}

Init ==
    /\ users = [d \in Deployments |-> <<>>] /\ live = {1} /\ deployment = 1
    /\ customers = 0 /\ sessions = <<>>
    /\ answered = {} /\ activated = {}

-----------------------------------------------------------------------------
\* register_user, or the collector's system account: the next id.
Register(d, p) ==
    /\ \A u \in Ids(d) : users[d][u].person # p
    /\ users' = [users EXCEPT ![d] = Append(@, [person |-> p, account |-> Inactive])]
    /\ UNCHANGED <<live, deployment, stripe, activated>>

Put(d, u, account) == users' = [users EXCEPT ![d] = [@ EXCEPT ![u].account = account]]

-----------------------------------------------------------------------------
\* _get_or_create_stripe_customer
Customer(d, u) ==
    IF users[d][u].account.customer # None THEN users[d][u].account.customer ELSE customers + 1
Known(c) == c <= customers
CustomerKept(c) == customers' = IF Known(c) THEN customers ELSE c

Opened(d, u, plan) ==
    [user |-> u, person |-> users[d][u].person, plan |-> plan, customer |-> Customer(d, u),
     deployment |-> d, completed |-> FALSE]

\* create_checkout_session: the URL is answered after the commit.
CheckoutUnsaved(d, u, plan) ==
    /\ Len(sessions) < MaxSessions /\ Customer(d, u) <= MaxCustomers
    /\ CustomerKept(Customer(d, u))
    /\ sessions' = Append(sessions, Opened(d, u, plan))
    /\ UNCHANGED <<users, live, deployment, answered, activated>>
Checkout(d, u, plan) ==
    /\ Len(sessions) < MaxSessions /\ Customer(d, u) <= MaxCustomers
    /\ CustomerKept(Customer(d, u))
    /\ sessions' = Append(sessions, Opened(d, u, plan))
    /\ Put(d, u, [users[d][u].account EXCEPT !.customer = Customer(d, u)])
    /\ UNCHANGED <<live, deployment, answered, activated>>

\* The session cannot be opened, or the commit fails: nothing is answered, and the
\* new customer is Stripe's alone.
CheckoutFails(d, u) ==
    /\ ~Known(Customer(d, u)) /\ Customer(d, u) <= MaxCustomers
    /\ CustomerKept(Customer(d, u))
    /\ UNCHANGED <<users, live, deployment, sessions, answered, activated>>

\* Somebody completes the checkout.  Whether it is paid by then the webhook does not
\* ask; the session carries the customer it was opened with and, as one of mode
\* "subscription", a subscription.
Complete(s) ==
    /\ ~sessions[s].completed
    /\ sessions' = [sessions EXCEPT ![s].completed = TRUE]
    /\ UNCHANGED <<users, live, deployment, customers, answered, activated>>

-----------------------------------------------------------------------------
\* _activate_user_subscription: the account of the id that the session carries, in the
\* container that the delivery reaches.
SubscribedAsBefore(account, s) ==
    [tier |-> sessions[s].plan, subscription |-> s, customer |->
        IF account.customer # None THEN account.customer ELSE sessions[s].customer]
Subscribed(account, s) ==
    [tier |-> sessions[s].plan, customer |-> sessions[s].customer, subscription |-> s]

\* checkout.session.completed: the first delivery, or another one.
Activate(d, s) ==
    LET u == sessions[s].user IN
    /\ s \in Completed /\ u \in Ids(d)
    /\ Put(d, u, Subscribed(users[d][u].account, s))
    /\ answered' = answered \cup {s}
    /\ activated' = activated \cup {[checkout |-> s, at |-> d]}
    /\ UNCHANGED <<live, deployment, customers, sessions>>

\* The account is unknown or the database fails: 400 or 500, and Stripe tries again.
RejectAnswered(s) ==
    /\ s \in Completed \ answered
    /\ answered' = answered \cup {s}
    /\ UNCHANGED <<users, live, deployment, customers, sessions, activated>>
Reject(s) == s \in Completed \ answered /\ UNCHANGED vars

-----------------------------------------------------------------------------
\* A new container has a new database, and the old one ends when the new one is ready.
Rollout ==
    /\ deployment < MaxDeployments
    /\ deployment' = deployment + 1
    /\ live' = live \cup {deployment + 1}
    /\ UNCHANGED <<users, stripe, activated>>

Retire(d) ==
    /\ d # deployment
    /\ live' = live \ {d}
    /\ users' = [users EXCEPT ![d] = <<>>]
    /\ UNCHANGED <<deployment, stripe, activated>>

Serve(d) ==
    \/ \E p \in Persons : Register(d, p)
    \/ \E u \in Ids(d), plan \in Plans : Checkout(d, u, plan)
    \/ \E u \in Ids(d) : CheckoutFails(d, u)
    \/ \E s \in DOMAIN sessions : Activate(d, s)
Next ==
    \/ \E d \in live : Serve(d) \/ Retire(d)
    \/ \E s \in DOMAIN sessions : Complete(s) \/ Reject(s)
    \/ Rollout

\* Stripe delivers until it is answered, and not every delivery is rejected.
FirstDelivery(s) == s \notin answered /\ \E d \in live : Activate(d, s)
Spec ==
    /\ Init /\ [][Next]_vars
    /\ \A s \in 1..MaxSessions : SF_vars(FirstDelivery(s))

-----------------------------------------------------------------------------
Account == [tier : Plans \cup {"developer"}, customer : 0..MaxCustomers,
            subscription : 0..MaxSessions]
User == [person : Persons, account : Account]
Session == [user : Nat, person : Persons, plan : Plans, customer : 1..MaxCustomers,
            deployment : Deployments, completed : BOOLEAN]
TypeOK ==
    /\ users \in [Deployments -> Seq(User)]
    /\ deployment \in Deployments /\ live \subseteq 1..deployment /\ deployment \in live
    /\ customers \in 0..MaxCustomers
    /\ sessions \in Seq(Session) /\ Len(sessions) <= MaxSessions
    /\ answered \subseteq Completed
    /\ activated \subseteq [checkout : Completed, at : Deployments]

(***************************************************************************)
(* An account that is subscribed has the tier, the customer and the        *)
(* subscription of one completed checkout, and that checkout was this      *)
(* person's unless it was opened in another container, for the account     *)
(* that has the id there (billing.py:187-216, 247-261).                    *)
(***************************************************************************)
SubscribedByCheckout ==
    \A d \in live : \A u \in Ids(d) :
        LET account == users[d][u].account
            s == account.subscription
        IN  s # None =>
              /\ s \in Completed
              /\ account.tier = sessions[s].plan /\ account.customer = sessions[s].customer
              /\ sessions[s].person = users[d][u].person \/ sessions[s].deployment # d

(***************************************************************************)
(* A person is one customer to Stripe in a container: whatever checkout    *)
(* fails half way, no two sessions whose URL was answered are of different *)
(* customers, unless another container's session reached this very account *)
(* (billing.py:121-133, 147-184).                                          *)
(***************************************************************************)
StrayAt(d, u) ==
    \E a \in activated :
        a.at = d /\ sessions[a.checkout].deployment # d /\ sessions[a.checkout].user = u
OneCustomer ==
    \A s, t \in DOMAIN sessions :
        /\ sessions[s].person = sessions[t].person
        /\ sessions[s].deployment = sessions[t].deployment
        => \/ sessions[s].customer = sessions[t].customer
           \/ StrayAt(sessions[s].deployment, sessions[s].user)

(***************************************************************************)
(* A completed checkout activates an account in the end, however often the *)
(* webhook fails first, unless its own container ends before it is         *)
(* delivered (app.py:1155-1165).                                           *)
(***************************************************************************)
CheckoutActivates ==
    \A s \in 1..MaxSessions :
        s \in Completed ~>
            s \in Completed /\ (sessions[s].deployment \in live => \E a \in activated : a.checkout = s)
================================================================================
