---------------------------- MODULE BillingProofs ----------------------------
(***************************************************************************)
(* Subscriptions for any number of persons, plans, sessions, customers and *)
(* containers: an account has what one checkout bought, and a person is    *)
(* one customer.  Cost recommendations for any samples and limits: a       *)
(* cluster has one at most.                                                *)
(***************************************************************************)
EXTENDS Billing, CostAdvice, SequenceTheorems, TLAPS

(***************************************************************************)
(* What a request does to one account of a container: the other accounts   *)
(* stay, and every person.                                                 *)
(***************************************************************************)
Replaces(us, new, u, account) ==
    /\ new \in Seq(User) /\ Len(new) = Len(us) /\ DOMAIN new = DOMAIN us
    /\ \A v \in DOMAIN us : new[v].person = us[v].person
    /\ \A v \in DOMAIN us : new[v].account = IF v = u THEN account ELSE us[v].account

LEMMA AccountReplaces ==
    ASSUME NEW us \in Seq(User), NEW u \in DOMAIN us, NEW account \in Account
    PROVE  Replaces(us, [us EXCEPT ![u].account = account], u, account)
<1> DEFINE user == [us[u] EXCEPT !.account = account]
           new == [us EXCEPT ![u].account = account]
<1>1. us[u] \in User /\ u \in 1..Len(us) /\ DOMAIN us = 1..Len(us)
  OBVIOUS
<1>3. user \in User /\ user.person = us[u].person /\ user.account = account
  BY <1>1 DEF User
<1>4. new = [us EXCEPT ![u] = user]
  OBVIOUS
<1> HIDE DEF user, new
<1>5. new \in Seq(User) /\ Len(new) = Len(us)
      /\ \A v \in 1..Len(us) : new[v] = IF v = u THEN user ELSE us[v]
  BY <1>1, <1>3, <1>4, ExceptSeq
<1> QED BY <1>1, <1>3, <1>5 DEF Replaces, new

\* The accounts of the other containers stay whatever a container does.
PutAt(d, u, account) ==
    /\ users' \in [Deployments -> Seq(User)]
    /\ \A e \in Deployments \ {d} : users'[e] = users[e]
    /\ Replaces(users[d], users'[d], u, account)

LEMMA PutReplaces ==
    ASSUME users \in [Deployments -> Seq(User)], NEW d \in Deployments, NEW u \in Ids(d),
           NEW account \in Account, Put(d, u, account)
    PROVE  PutAt(d, u, account)
<1> DEFINE new == [users[d] EXCEPT ![u].account = account]
<1>1. Replaces(users[d], new, u, account)
  BY AccountReplaces DEF Ids
<1>2. users' = [users EXCEPT ![d] = new]
  BY DEF Put
<1> HIDE DEF new
<1>3. new \in Seq(User)
  BY <1>1 DEF Replaces
<1>4. users'[d] = new /\ \A e \in Deployments \ {d} : users'[e] = users[e]
  BY <1>2
<1> QED BY <1>1, <1>2, <1>3, <1>4 DEF PutAt

-----------------------------------------------------------------------------
(***************************************************************************)
(* A session of a container that serves is of an account that is still     *)
(* there, and of the person and, unless another container's session        *)
(* reached that account, the customer that the account is of.              *)
(***************************************************************************)
OfAccount(s, d) ==
    /\ sessions[s].user \in Ids(d)
    /\ users[d][sessions[s].user].person = sessions[s].person
    /\ \/ users[d][sessions[s].user].account.customer = sessions[s].customer
       \/ StrayAt(d, sessions[s].user)
SessionsOfAccounts ==
    \A s \in DOMAIN sessions :
        /\ sessions[s].deployment <= deployment
        /\ sessions[s].deployment \in live => OfAccount(s, sessions[s].deployment)

\* One account of a person.
OneAccount ==
    \A d \in live : \A u, v \in Ids(d) : users[d][u].person = users[d][v].person => u = v

Bought(d, u) ==
    LET account == users[d][u].account
        s == account.subscription
    IN  s # None =>
          /\ s \in Completed
          /\ account.tier = sessions[s].plan /\ account.customer = sessions[s].customer
          /\ sessions[s].person = users[d][u].person \/ sessions[s].deployment # d
AllBought == \A d \in live : \A u \in Ids(d) : Bought(d, u)

\* Containers that do not serve have no accounts.
Emptied == \A d \in Deployments \ live : users[d] = <<>>

IInv ==
    TypeOK /\ Emptied /\ SessionsOfAccounts /\ OneAccount /\ AllBought /\ OneCustomer

LEMMA LiveDeployed == TypeOK => live \subseteq Deployments
<1> SUFFICES ASSUME deployment \in 1..MaxDeployments, live \subseteq 1..deployment
             PROVE  live \subseteq 1..MaxDeployments
  BY DEF TypeOK, Deployments
<1> QED BY BillingConstants

LEMMA InvInit == Init => IInv
<1> SUFFICES ASSUME Init PROVE IInv
  OBVIOUS
<1>1. 1 \in Deployments /\ live = {1} /\ deployment = 1 /\ customers = 0
  BY BillingConstants DEF Init, Deployments
<1>2. <<>> \in Seq(User) /\ <<>> \in Seq(Session) /\ Len(sessions) = 0
      /\ sessions = <<>> /\ DOMAIN sessions = {}
  BY DEF Init
<1>3. \A d \in Deployments : users[d] = <<>> /\ Ids(d) = {}
  BY DEF Init, Ids
<1>4. users \in [Deployments -> Seq(User)]
  BY <1>2 DEF Init
<1>5. TypeOK
  <2>1. answered \subseteq Completed /\ activated \subseteq [checkout : Completed, at : Deployments]
    BY DEF Init
  <2> HIDE DEF Deployments
  <2> QED BY <1>1, <1>2, <1>4, <2>1, BillingConstants DEF TypeOK
<1>6. SessionsOfAccounts /\ OneCustomer
  BY <1>2 DEF SessionsOfAccounts, OneCustomer
<1>7. OneAccount /\ AllBought /\ Emptied
  BY <1>1, <1>3 DEF OneAccount, AllBought, Emptied
<1> QED BY <1>5, <1>6, <1>7 DEF IInv

\* Names of the parts of the state that most steps leave alone.
SessionsStay == UNCHANGED <<sessions, activated>>
LiveStay == UNCHANGED <<live, deployment>>

LEMMA StrayStays == ASSUME SessionsStay, NEW d, NEW u PROVE StrayAt(d, u)' <=> StrayAt(d, u)
  BY DEF SessionsStay, StrayAt

LEMMA RegisterKeeps ==
    ASSUME IInv, NEW d \in live, NEW p \in Persons, Register(d, p) PROVE IInv'
<1> DEFINE user == [person |-> p, account |-> Inactive]
           n == Len(users[d]) + 1
<1>1. /\ d \in Deployments /\ users[d] \in Seq(User) /\ users \in [Deployments -> Seq(User)]
      /\ DOMAIN users[d] = 1..Len(users[d]) /\ Len(users[d]) \in Nat
  BY LiveDeployed DEF IInv, TypeOK
<1>2. UNCHANGED <<live, deployment, customers, sessions, answered, activated>>
  BY DEF Register, stripe
<1>3. Inactive \in Account /\ user \in User
  BY BillingConstants DEF Inactive, Account, User, None
<1>4. /\ users'[d] \in Seq(User) /\ DOMAIN users'[d] = 1..n /\ users'[d][n] = user
      /\ \A u \in Ids(d) : users'[d][u] = users[d][u]
  <2> HIDE DEF user
  <2>1. users'[d] = Append(users[d], user)
    BY <1>1 DEF Register, user
  <2> QED BY <1>1, <1>3, <2>1, AppendProperties, LenProperties DEF Ids
<1>5. users' \in [Deployments -> Seq(User)] /\ \A e \in Deployments \ {d} : users'[e] = users[e]
  <2> HIDE DEF user
  <2>1. users' = [users EXCEPT ![d] = Append(users[d], user)]
    BY DEF Register, user
  <2>2. Append(users[d], user) \in Seq(User)
    BY <1>1, <1>3, AppendProperties
  <2> QED BY <1>1, <2>1, <2>2
<1>6. Ids(d)' = Ids(d) \cup {n} /\ n \notin Ids(d)
  BY <1>1, <1>4 DEF Ids
<1>7. TypeOK'
  BY <1>2, <1>5 DEF IInv, TypeOK, Completed
<1>8. Emptied'
  BY <1>2, <1>5 DEF IInv, Emptied
<1>9. SessionsOfAccounts'
  <2> SUFFICES ASSUME NEW s \in DOMAIN sessions, sessions[s].deployment \in live
               PROVE  OfAccount(s, sessions[s].deployment)'
    BY <1>2 DEF IInv, SessionsOfAccounts
  <2>1. OfAccount(s, sessions[s].deployment) /\ sessions[s].deployment \in Deployments
    BY LiveDeployed DEF IInv, SessionsOfAccounts
  <2>2. CASE sessions[s].deployment = d
    BY <1>2, <1>4, <1>6, <2>1, <2>2 DEF OfAccount, StrayAt
  <2>3. CASE sessions[s].deployment # d
    BY <1>2, <1>5, <2>1, <2>3 DEF OfAccount, StrayAt, Ids
  <2> QED BY <2>2, <2>3
<1>10. OneAccount'
  <2> SUFFICES ASSUME NEW e \in live, NEW u \in Ids(e)', NEW v \in Ids(e)',
                      users'[e][u].person = users'[e][v].person
               PROVE  u = v
    BY <1>2 DEF OneAccount
  <2>1. CASE e = d
    <3>1. \A w \in Ids(d) : users'[d][w].person = users[d][w].person /\ users[d][w].person # p
      BY <1>4 DEF Register
    <3>2. users'[d][n].person = p
      BY <1>4
    <3> QED BY <1>6, <2>1, <3>1, <3>2 DEF IInv, OneAccount
  <2>2. CASE e # d
    <3>1. users'[e] = users[e]
      BY <1>5, <2>2, LiveDeployed DEF IInv
    <3> QED BY <3>1 DEF IInv, OneAccount, Ids
  <2> QED BY <2>1, <2>2
<1>11. AllBought'
  <2> SUFFICES ASSUME NEW e \in live, NEW u \in Ids(e)' PROVE Bought(e, u)'
    BY <1>2 DEF AllBought
  <2>1. CASE e = d /\ u = n
    BY <1>4, <2>1 DEF Bought, Inactive, None
  <2>2. CASE e = d /\ u # n
    <3>1. u \in Ids(d) /\ users'[d][u] = users[d][u]
      BY <1>4, <1>6, <2>2
    <3> QED BY <1>2, <2>2, <3>1 DEF IInv, AllBought, Bought, Completed
  <2>3. CASE e # d
    <3>1. users'[e] = users[e]
      BY <1>5, <2>3, LiveDeployed DEF IInv
    <3> QED BY <1>2, <3>1 DEF IInv, AllBought, Bought, Completed, Ids
  <2> QED BY <2>1, <2>2, <2>3
<1>12. OneCustomer'
  BY <1>2 DEF IInv, OneCustomer, StrayAt
<1> QED BY <1>7, <1>8, <1>9, <1>10, <1>11, <1>12 DEF IInv

\* Putting an account in place of another disturbs neither types nor persons.
LEMMA PutKeeps ==
    ASSUME IInv, NEW d \in live, NEW u \in Ids(d), NEW account \in Account, PutAt(d, u, account),
           UNCHANGED <<live, deployment>>
    PROVE  /\ users' \in [Deployments -> Seq(User)] /\ Emptied' /\ OneAccount'
           /\ \A e \in live : Ids(e)' = Ids(e)
           /\ \A e \in live : \A v \in Ids(e) : users'[e][v].person = users[e][v].person
           /\ \A e \in live : \A v \in Ids(e) : users'[e][v].account =
                  IF e = d /\ v = u THEN account ELSE users[e][v].account
<1>1. live \subseteq Deployments
  BY LiveDeployed DEF IInv
<1>2. \A e \in live : e # d => users'[e] = users[e]
  BY <1>1 DEF PutAt
<1>3. /\ DOMAIN users'[d] = DOMAIN users[d]
      /\ \A v \in DOMAIN users[d] : users'[d][v].person = users[d][v].person
      /\ \A v \in DOMAIN users[d] :
            users'[d][v].account = IF v = u THEN account ELSE users[d][v].account
  BY DEF PutAt, Replaces
<1>4. \A e \in live : Ids(e)' = Ids(e)
  BY <1>2, <1>3 DEF Ids
<1>5. \A e \in live : \A v \in Ids(e) : users'[e][v].person = users[e][v].person
  BY <1>2, <1>3 DEF Ids
<1>6. \A e \in live : \A v \in Ids(e) : users'[e][v].account =
                  IF e = d /\ v = u THEN account ELSE users[e][v].account
  BY <1>2, <1>3 DEF Ids
<1>7. OneAccount'
  BY <1>4, <1>5 DEF IInv, OneAccount
<1>8. Emptied' /\ users' \in [Deployments -> Seq(User)]
  BY DEF PutAt, IInv, Emptied
<1> QED BY <1>4, <1>5, <1>6, <1>7, <1>8

\* Sessions and the account of Checkout, and of a checkout that fails.
LEMMA CheckoutKeeps ==
    ASSUME IInv, NEW d \in live, NEW u \in Ids(d), NEW plan \in Plans, Checkout(d, u, plan)
    PROVE  IInv'
<1> DEFINE c == Customer(d, u)
           before == users[d][u].account
           account == [before EXCEPT !.customer = c]
           opened == Opened(d, u, plan)
<1>0. PICK n \in Nat : n = Len(sessions) + 1
  BY DEF IInv, TypeOK
<1>1. /\ d \in Deployments /\ users \in [Deployments -> Seq(User)] /\ users[d] \in Seq(User)
      /\ sessions \in Seq(Session) /\ customers \in 0..MaxCustomers
      /\ DOMAIN sessions = 1..Len(sessions) /\ Len(sessions) \in Nat /\ n <= MaxSessions
      /\ UNCHANGED <<live, deployment, answered, activated>>
  <2>1. d \in Deployments
    BY LiveDeployed DEF IInv
  <2>2. n <= MaxSessions /\ UNCHANGED <<live, deployment, answered, activated>>
    BY <1>0, BillingConstants DEF IInv, TypeOK, Checkout
  <2> QED BY <2>1, <2>2 DEF IInv, TypeOK
<1>2. users[d][u] \in User /\ before \in Account
  <2>1. users[d][u] \in User
    BY <1>1 DEF Ids
  <2> QED BY <2>1 DEF User
<1>3. c \in 1..MaxCustomers
  <2>1. before.customer \in 0..MaxCustomers
    BY <1>2 DEF Account
  <2>2. Customer(d, u) <= MaxCustomers
    BY DEF Checkout
  <2>3. Customer(d, u) \in Nat \ {0}
    BY <1>1, <2>1, BillingConstants DEF Customer, None
  <2> QED BY <2>2, <2>3, BillingConstants
<1>4. account \in Account
  BY <1>2, <1>3 DEF Account
<1>5. PutAt(d, u, account)
  <2>1. Put(d, u, account)
    BY DEF Checkout
  <2> HIDE DEF account
  <2> QED BY <1>1, <1>4, <2>1, PutReplaces
<1>6. /\ opened \in Session
      /\ opened.user = u /\ opened.person = users[d][u].person /\ opened.customer = c
      /\ opened.deployment = d /\ opened.completed = FALSE
  <2>1. u \in Nat
    BY <1>1 DEF Ids
  <2> QED BY <1>1, <1>2, <1>3, <2>1 DEF Opened, Session, User
<1>7. /\ sessions' \in Seq(Session) /\ Len(sessions') = n /\ DOMAIN sessions' = 1..n /\ sessions'[n] = opened
      /\ \A s \in DOMAIN sessions : sessions'[s] = sessions[s]
  <2>1. sessions' = Append(sessions, opened)
    BY DEF Checkout
  <2> HIDE DEF opened
  <2> QED BY <1>0, <1>1, <1>6, <2>1, AppendProperties, LenProperties
<1>8. DOMAIN sessions' = DOMAIN sessions \cup {n} /\ n \notin DOMAIN sessions
  BY <1>0, <1>1, <1>7
<1>9. Completed' = Completed
  BY <1>6, <1>7, <1>8 DEF Completed
<1>10. account.customer = c /\ account.tier = before.tier
      /\ account.subscription = before.subscription
      /\ (before.customer # None => before.customer = c)
  BY <1>2 DEF Account, Customer
<1>11. customers' \in 0..MaxCustomers
  BY <1>1, <1>3 DEF Checkout, CustomerKept, Known
<1> HIDE DEF account, before, opened, c
<1>12. /\ users' \in [Deployments -> Seq(User)] /\ Emptied' /\ OneAccount'
       /\ \A e \in live : Ids(e)' = Ids(e)
       /\ \A e \in live : \A v \in Ids(e) : users'[e][v].person = users[e][v].person
       /\ \A e \in live : \A v \in Ids(e) : users'[e][v].account =
              IF e = d /\ v = u THEN account ELSE users[e][v].account
  BY <1>1, <1>4, <1>5, PutKeeps
<1>13. TypeOK'
  BY <1>1, <1>7, <1>9, <1>11, <1>12 DEF IInv, TypeOK
<1>14. \A e, v : StrayAt(e, v)' <=> StrayAt(e, v)
  <2>1. \A a \in activated : sessions'[a.checkout] = sessions[a.checkout]
    BY <1>7 DEF IInv, TypeOK, Completed
  <2> QED BY <1>1, <2>1 DEF StrayAt
<1>15. \A s \in DOMAIN sessions : sessions[s].customer # None
  <2>1. \A s \in DOMAIN sessions : sessions[s] \in Session
    BY <1>1
  <2> QED BY <2>1 DEF Session, None
<1>16. users[d][u].account = before
  BY DEF before
<1>17. SessionsOfAccounts'
  <2>1. OfAccount(n, d)'
    BY <1>6, <1>7, <1>8, <1>10, <1>12 DEF OfAccount
  <2>2. ASSUME NEW s \in DOMAIN sessions, sessions[s].deployment \in live
        PROVE  OfAccount(s, sessions[s].deployment)'
    <3>1. OfAccount(s, sessions[s].deployment) /\ sessions'[s] = sessions[s]
      BY <1>7, <2>2 DEF IInv, SessionsOfAccounts
    <3>2. CASE sessions[s].deployment = d /\ sessions[s].user = u
      BY <1>10, <1>12, <1>14, <1>15, <1>16, <3>1, <3>2 DEF OfAccount
    <3>3. CASE ~(sessions[s].deployment = d /\ sessions[s].user = u)
      BY <1>12, <1>14, <2>2, <3>1, <3>3 DEF OfAccount
    <3> QED BY <3>2, <3>3
  <2>3. d \in Nat /\ deployment \in Nat /\ d <= deployment
    BY DEF IInv, TypeOK, Deployments
  <2>4. \A s \in DOMAIN sessions : sessions'[s].deployment = sessions[s].deployment
                                   /\ sessions[s].deployment <= deployment
    BY <1>7 DEF IInv, SessionsOfAccounts
  <2> QED BY <1>1, <1>6, <1>7, <1>8, <2>1, <2>2, <2>3, <2>4 DEF SessionsOfAccounts
<1>18. AllBought'
  <2> SUFFICES ASSUME NEW e \in live, NEW v \in Ids(e) PROVE Bought(e, v)'
    BY <1>1, <1>12 DEF AllBought
  <2> DEFINE s == users[e][v].account.subscription
  <2>1. users'[e][v].person = users[e][v].person /\ users'[e][v].account.subscription = s
        /\ users'[e][v].account.tier = users[e][v].account.tier
    BY <1>10, <1>12, <1>16
  <2>2. CASE s = None
    BY <2>1, <2>2 DEF Bought
  <2>3. CASE s # None
    <3>1. /\ s \in Completed /\ users[e][v].account.tier = sessions[s].plan
          /\ users[e][v].account.customer = sessions[s].customer
          /\ sessions[s].person = users[e][v].person \/ sessions[s].deployment # e
      BY <2>3 DEF IInv, AllBought, Bought
    <3>2. s \in DOMAIN sessions /\ sessions'[s] = sessions[s] /\ sessions[s].customer # None
      BY <1>7, <1>15, <3>1 DEF Completed
    <3>3. users'[e][v].account.customer = users[e][v].account.customer
      BY <1>10, <1>12, <1>16, <3>1, <3>2
    <3> QED BY <1>9, <2>1, <3>1, <3>2, <3>3 DEF Bought
  <2> QED BY <2>2, <2>3
<1>19. OneCustomer'
  <2> SUFFICES ASSUME NEW s \in DOMAIN sessions', NEW t \in DOMAIN sessions',
                      sessions'[s].person = sessions'[t].person,
                      sessions'[s].deployment = sessions'[t].deployment
               PROVE  \/ sessions'[s].customer = sessions'[t].customer
                      \/ StrayAt(sessions[s].deployment, sessions[s].user)'
    BY DEF OneCustomer
  <2>1. CASE s \in DOMAIN sessions /\ t \in DOMAIN sessions
    BY <1>7, <1>14, <2>1 DEF IInv, OneCustomer
  <2>2. CASE sessions'[s].deployment = d
    <3>1. OfAccount(s, d)' /\ OfAccount(t, d)'
      BY <1>1, <1>17, <2>2 DEF SessionsOfAccounts
    <3>2. sessions'[s].user = sessions'[t].user
      BY <1>1, <1>12, <3>1 DEF OfAccount, OneAccount
    <3> QED BY <2>2, <3>1, <3>2 DEF OfAccount
  <2> QED BY <1>6, <1>7, <1>8, <2>1, <2>2
<1> QED BY <1>12, <1>13, <1>17, <1>18, <1>19 DEF IInv

\* A checkout that fails leaves a customer at Stripe alone, one that is completed
\* changes the session's state alone.
LEMMA CheckoutFailsKeeps ==
    ASSUME IInv, NEW d \in live, NEW u \in Ids(d), CheckoutFails(d, u) PROVE IInv'
<1>1. UNCHANGED <<users, live, deployment, sessions, answered, activated>>
  BY DEF CheckoutFails
<1>2. customers' \in 0..MaxCustomers
  <2>1. users[d] \in Seq(User) /\ customers \in 0..MaxCustomers
    BY LiveDeployed DEF IInv, TypeOK
  <2>2. users[d][u] \in User
    BY <2>1 DEF Ids
  <2>3. Customer(d, u) \in Nat /\ Customer(d, u) <= MaxCustomers
        /\ customers' \in {customers, Customer(d, u)}
    BY <2>1, <2>2, BillingConstants DEF Customer, User, Account, CheckoutFails, CustomerKept
  <2> QED BY <2>1, <2>3, BillingConstants
<1>3. TypeOK'
  BY <1>1, <1>2 DEF IInv, TypeOK, Completed
<1> QED
  BY <1>1, <1>3 DEF IInv, Emptied, SessionsOfAccounts, OfAccount, StrayAt, OneAccount, AllBought,
     Bought, OneCustomer, Completed, Ids

LEMMA CompleteKeeps == ASSUME IInv, NEW s \in DOMAIN sessions, Complete(s) PROVE IInv'
<1> DEFINE completed == [sessions[s] EXCEPT !.completed = TRUE]
<1>1. /\ sessions \in Seq(Session) /\ DOMAIN sessions = 1..Len(sessions)
      /\ UNCHANGED <<users, live, deployment, customers, answered, activated>>
  BY DEF IInv, TypeOK, Complete
<1>2. sessions[s] \in Session
  BY <1>1
<1>3. /\ completed \in Session /\ completed.completed = TRUE
      /\ completed.user = sessions[s].user /\ completed.person = sessions[s].person
      /\ completed.plan = sessions[s].plan /\ completed.customer = sessions[s].customer
      /\ completed.deployment = sessions[s].deployment
  BY <1>2 DEF Session
<1>4. sessions' = [sessions EXCEPT ![s] = completed]
  BY DEF Complete
<1> HIDE DEF completed
<1>5. /\ sessions' \in Seq(Session) /\ Len(sessions') = Len(sessions) /\ DOMAIN sessions' = DOMAIN sessions
      /\ \A t \in DOMAIN sessions : sessions'[t] = IF t = s THEN completed ELSE sessions[t]
  BY <1>1, <1>3, <1>4, ExceptSeq
<1>6. \A t \in DOMAIN sessions :
        /\ sessions'[t].user = sessions[t].user /\ sessions'[t].person = sessions[t].person
        /\ sessions'[t].plan = sessions[t].plan /\ sessions'[t].customer = sessions[t].customer
        /\ sessions'[t].deployment = sessions[t].deployment
        /\ sessions[t].completed => sessions'[t].completed
  BY <1>3, <1>5
<1>7. Completed \subseteq Completed'
  BY <1>5, <1>6 DEF Completed
<1>8. TypeOK'
  BY <1>1, <1>5, <1>7 DEF IInv, TypeOK
<1>9. \A e, v : StrayAt(e, v)' <=> StrayAt(e, v)
  <2>1. \A a \in activated : a.checkout \in DOMAIN sessions
    BY DEF IInv, TypeOK, Completed
  <2> QED BY <1>1, <1>6, <2>1 DEF StrayAt
<1>10. SessionsOfAccounts'
  <2> SUFFICES ASSUME NEW t \in DOMAIN sessions
               PROVE  /\ sessions'[t].deployment <= deployment
                      /\ sessions'[t].deployment \in live => OfAccount(t, sessions[t].deployment)'
    BY <1>1, <1>5 DEF SessionsOfAccounts
  <2>1. /\ sessions[t].deployment <= deployment
        /\ sessions[t].deployment \in live => OfAccount(t, sessions[t].deployment)
    BY DEF IInv, SessionsOfAccounts
  <2> QED BY <1>1, <1>6, <1>9, <2>1 DEF OfAccount, Ids
<1>11. OneAccount' /\ Emptied'
  BY <1>1 DEF IInv, OneAccount, Emptied, Ids
<1>12. AllBought'
  <2> SUFFICES ASSUME NEW d \in live, NEW u \in Ids(d) PROVE Bought(d, u)'
    BY <1>1 DEF AllBought, Ids
  <2>1. Bought(d, u)
    BY DEF IInv, AllBought
  <2> QED BY <1>1, <1>6, <1>7, <2>1 DEF Bought, Completed
<1>13. OneCustomer'
  BY <1>5, <1>6, <1>9 DEF IInv, OneCustomer
<1> QED BY <1>8, <1>10, <1>11, <1>12, <1>13 DEF IInv

LEMMA ActivateKeeps ==
    ASSUME IInv, NEW d \in live, NEW s \in DOMAIN sessions, Activate(d, s) PROVE IInv'
<1>1. PICK u \in Ids(d) : u = sessions[s].user
  BY DEF Activate
<1> DEFINE account == Subscribed(users[d][u].account, s)
           now == [checkout |-> s, at |-> d]
<1>2. /\ d \in Deployments /\ users \in [Deployments -> Seq(User)] /\ sessions \in Seq(Session)
      /\ DOMAIN sessions = 1..Len(sessions) /\ Len(sessions) \in 0..MaxSessions
      /\ s \in Completed /\ answered' = answered \cup {s}
      /\ activated' = activated \cup {now}
      /\ UNCHANGED <<live, deployment, customers, sessions>>
  <2>1. d \in Deployments
    BY LiveDeployed DEF IInv
  <2> QED BY <2>1, BillingConstants DEF IInv, TypeOK, Activate
<1>3. sessions[s] \in Session /\ s \in 1..MaxSessions
  BY <1>2, BillingConstants
<1>4. /\ account \in Account /\ account.tier = sessions[s].plan
      /\ account.customer = sessions[s].customer /\ account.subscription = s
  BY <1>3 DEF Subscribed, Account, Session
<1>5. PutAt(d, u, account)
  <2>1. Put(d, u, account)
    BY <1>1 DEF Activate
  <2> HIDE DEF account
  <2> QED BY <1>2, <1>4, <2>1, PutReplaces
<1> HIDE DEF account
<1>6. /\ users' \in [Deployments -> Seq(User)] /\ Emptied' /\ OneAccount'
      /\ \A e \in live : Ids(e)' = Ids(e)
      /\ \A e \in live : \A v \in Ids(e) : users'[e][v].person = users[e][v].person
      /\ \A e \in live : \A v \in Ids(e) : users'[e][v].account =
             IF e = d /\ v = u THEN account ELSE users[e][v].account
  BY <1>2, <1>4, <1>5, PutKeeps
<1>7. Completed' = Completed
  BY <1>2 DEF Completed
<1>8. TypeOK'
  <2>1. now \in [checkout : Completed, at : Deployments]
    BY <1>2
  <2> QED BY <1>2, <1>6, <1>7, <2>1 DEF IInv, TypeOK
<1>9. now.checkout = s /\ now.at = d
  OBVIOUS
<1> HIDE DEF now
<1>10. \A e, v : StrayAt(e, v) => StrayAt(e, v)'
  BY <1>2 DEF StrayAt
<1>11. sessions[s].deployment # d => StrayAt(d, u)'
  BY <1>1, <1>2, <1>9 DEF StrayAt
<1>12. sessions[s].deployment = d => OfAccount(s, d)
  BY DEF IInv, SessionsOfAccounts
<1>13. SessionsOfAccounts'
  <2> SUFFICES ASSUME NEW t \in DOMAIN sessions, sessions[t].deployment \in live
               PROVE  OfAccount(t, sessions[t].deployment)'
    BY <1>2 DEF IInv, SessionsOfAccounts
  <2>1. OfAccount(t, sessions[t].deployment)
    BY DEF IInv, SessionsOfAccounts
  <2>2. CASE sessions[t].deployment = d /\ sessions[t].user = u
    <3>1. CASE StrayAt(d, u)'
      BY <1>2, <1>6, <2>1, <2>2, <3>1 DEF OfAccount
    <3>2. CASE ~StrayAt(d, u)'
      <4>1. sessions[s].deployment = d /\ OfAccount(s, d) /\ ~StrayAt(d, u)
        BY <1>10, <1>11, <1>12, <3>2
      <4>2. users[d][u].account.customer = sessions[s].customer
            /\ users[d][u].account.customer = sessions[t].customer
        BY <1>1, <2>1, <2>2, <4>1 DEF OfAccount
      <4> QED BY <1>2, <1>4, <1>6, <2>1, <2>2, <4>2 DEF OfAccount
    <3> QED BY <3>1, <3>2
  <2>3. CASE ~(sessions[t].deployment = d /\ sessions[t].user = u)
    BY <1>2, <1>6, <1>10, <2>1, <2>3 DEF OfAccount
  <2> QED BY <2>2, <2>3
<1>14. AllBought'
  <2> SUFFICES ASSUME NEW e \in live, NEW v \in Ids(e) PROVE Bought(e, v)'
    BY <1>2, <1>6 DEF AllBought
  <2>1. CASE e = d /\ v = u
    <3>1. sessions[s].person = users[d][u].person \/ sessions[s].deployment # d
      BY <1>1, <1>12 DEF OfAccount
    <3>2. users'[d][u].account = account /\ users'[d][u].person = users[d][u].person
      BY <1>6
    <3> QED BY <1>2, <1>4, <1>7, <2>1, <3>1, <3>2 DEF Bought
  <2>2. CASE ~(e = d /\ v = u)
    <3>1. users'[e][v].account = users[e][v].account /\ users'[e][v].person = users[e][v].person
      BY <1>6, <2>2
    <3>2. Bought(e, v)
      BY DEF IInv, AllBought
    <3> QED BY <1>2, <1>7, <3>1, <3>2 DEF Bought
  <2> QED BY <2>1, <2>2
<1>15. OneCustomer'
  BY <1>2, <1>10 DEF IInv, OneCustomer
<1> QED BY <1>6, <1>8, <1>13, <1>14, <1>15 DEF IInv

\* A container that begins has no accounts, one that ends takes its accounts along.
LEMMA RolloutKeeps == ASSUME IInv, Rollout PROVE IInv'
<1> DEFINE new == deployment + 1
<1>1. /\ deployment' = new /\ live' = live \cup {new} /\ new \in Deployments
      /\ deployment \in Nat /\ new \notin live
      /\ UNCHANGED <<users, customers, sessions, answered, activated>>
  BY BillingConstants DEF Rollout, stripe, IInv, TypeOK, Deployments
<1>2. users[new] = <<>> /\ Ids(new) = {}
  BY <1>1 DEF IInv, Emptied, Ids
<1>3. TypeOK'
  BY <1>1 DEF IInv, TypeOK, Completed, Deployments
<1>4. Emptied'
  BY <1>1 DEF IInv, Emptied
<1>5. SessionsOfAccounts'
  <2> SUFFICES ASSUME NEW s \in DOMAIN sessions
               PROVE  /\ sessions[s].deployment <= new
                      /\ sessions[s].deployment \in live \cup {new} =>
                            OfAccount(s, sessions[s].deployment)'
    BY <1>1 DEF SessionsOfAccounts
  <2>1. sessions[s] \in Session /\ sessions[s].deployment <= deployment
        /\ (sessions[s].deployment \in live => OfAccount(s, sessions[s].deployment))
    BY DEF IInv, SessionsOfAccounts, TypeOK
  <2>2. sessions[s].deployment \in Nat
    BY <2>1 DEF Session, Deployments
  <2>3. sessions[s].deployment <= new /\ sessions[s].deployment # new
    BY <1>1, <2>1, <2>2
  <2> QED BY <1>1, <2>1, <2>3 DEF OfAccount, StrayAt, Ids
<1>6. OneAccount'
  BY <1>1, <1>2 DEF IInv, OneAccount, Ids
<1>7. AllBought'
  BY <1>1, <1>2 DEF IInv, AllBought, Bought, Ids, Completed
<1>8. OneCustomer'
  BY <1>1 DEF IInv, OneCustomer, StrayAt
<1> QED BY <1>3, <1>4, <1>5, <1>6, <1>7, <1>8 DEF IInv

LEMMA RetireKeeps == ASSUME IInv, NEW d \in live, Retire(d) PROVE IInv'
<1>1. /\ live' = live \ {d} /\ users' = [users EXCEPT ![d] = <<>>]
      /\ UNCHANGED <<deployment, customers, sessions, answered, activated>>
      /\ users \in [Deployments -> Seq(User)] /\ live \subseteq Deployments /\ d # deployment
  BY LiveDeployed DEF Retire, stripe, IInv, TypeOK
<1>2. \A e \in live' : e \in live /\ users'[e] = users[e]
  BY <1>1
<1>3. users' \in [Deployments -> Seq(User)]
  BY <1>1
<1>4. TypeOK'
  BY <1>1, <1>3 DEF IInv, TypeOK, Completed
<1>5. Emptied'
  BY <1>1 DEF IInv, Emptied
<1>6. SessionsOfAccounts'
  BY <1>1, <1>2 DEF IInv, SessionsOfAccounts, OfAccount, StrayAt, Ids
<1>7. OneAccount'
  BY <1>2 DEF IInv, OneAccount, Ids
<1>8. AllBought'
  BY <1>1, <1>2 DEF IInv, AllBought, Bought, Ids, Completed
<1>9. OneCustomer'
  BY <1>1 DEF IInv, OneCustomer, StrayAt
<1> QED BY <1>4, <1>5, <1>6, <1>7, <1>8, <1>9 DEF IInv

LEMMA InvStep == IInv /\ [Next]_vars => IInv'
<1> SUFFICES ASSUME IInv, [Next]_vars PROVE IInv'
  OBVIOUS
<1>1. CASE UNCHANGED vars
  BY <1>1 DEF vars, stripe, IInv, TypeOK, Emptied, SessionsOfAccounts, OfAccount, StrayAt, OneAccount,
     AllBought, Bought, OneCustomer, Completed, Ids
<1>2. ASSUME NEW s \in DOMAIN sessions, Complete(s) \/ Reject(s) PROVE IInv'
  BY <1>1, <1>2, CompleteKeeps DEF Reject
<1>3. ASSUME NEW d \in live, Serve(d) PROVE IInv'
  BY <1>3, RegisterKeeps, CheckoutKeeps, CheckoutFailsKeeps, ActivateKeeps DEF Serve
<1> QED
  BY <1>1, <1>2, <1>3, RolloutKeeps, RetireKeeps DEF Next

LEMMA InvHolds == Spec => []IInv
  BY InvInit, InvStep, PTL DEF Spec

(***************************************************************************)
(* Accounts, sessions and activations have the types the code relies on.   *)
(***************************************************************************)
THEOREM BillingTypes == Spec => []TypeOK
<1>1. IInv => TypeOK
  BY DEF IInv
<1> QED BY <1>1, InvHolds, PTL

(***************************************************************************)
(* A subscribed account has the tier, the customer and the subscription of *)
(* one completed checkout, of its person or of another container's account *)
(* with its id.                                                            *)
(***************************************************************************)
THEOREM BillingSubscribedByCheckout == Spec => []SubscribedByCheckout
<1>1. IInv => SubscribedByCheckout
  BY DEF IInv, AllBought, Bought, SubscribedByCheckout
<1> QED BY <1>1, InvHolds, PTL

(***************************************************************************)
(* A person is one customer to Stripe in a container, unless another       *)
(* container's session reached the account.                                *)
(***************************************************************************)
THEOREM BillingOneCustomer == Spec => []OneCustomer
<1>1. IInv => OneCustomer
  BY DEF IInv
<1> QED BY <1>1, InvHolds, PTL

-----------------------------------------------------------------------------
(* Cost recommendations, of any names, samples and limits.  They share no    *)
(* state with the subscriptions.                                             *)

\* A recommendation that takes the place of its cluster's leaves one of each.
LEMMA SaveKeepsOne ==
    ASSUME OneActive, NEW c, Save(c) PROVE OneActive'
<1> DEFINE row == [cluster |-> c, type |-> found]
           left == DOMAIN active \ {a \in DOMAIN active : a.cluster = row.cluster}
           kept == [a \in left |-> active[a]]
<1>1. Resolve(row) = kept
  BY DEF Resolve, Without
<1>2. active' = BagAdd(kept, row)
  BY <1>1 DEF Save
<1>3. row \notin DOMAIN kept
  OBVIOUS
<1>4. active' = [a \in left \cup {row} |-> IF a = row THEN 1 ELSE active[a]]
  BY <1>2, <1>3 DEF BagAdd
<1> QED BY <1>4 DEF OneActive

LEMMA OneActiveStep == OneActive /\ [AdviceNext]_adviceVars => OneActive'
<1> SUFFICES ASSUME OneActive, [AdviceNext]_adviceVars PROVE OneActive'
  OBVIOUS
<1>1. ASSUME NEW c, Save(c) PROVE OneActive'
  BY <1>1, SaveKeepsOne
<1>2. CASE UNCHANGED active
  BY <1>2 DEF OneActive
<1>3. CASE AdviceRestart
  BY <1>3 DEF AdviceRestart, OneActive, database, NoRows
<1> QED
  BY <1>1, <1>2, <1>3 DEF AdviceNext, AdviceStep, Collect, Analyze, Begin,
     Abort, adviceVars, database

(***************************************************************************)
(* A cluster has at most one Active recommendation, whatever failed or was *)
(* restarted in between.                                                   *)
(***************************************************************************)
THEOREM AdviceOneActive == AdviceSpec => []OneActive
<1>1. AdviceInit => OneActive
  BY DEF AdviceInit, OneActive, NoRows
<1> QED BY <1>1, OneActiveStep, PTL DEF AdviceSpec

LEMMA AdviceTypeInit == AdviceInit => AdviceTypeOK
  BY AdviceConstants DEF AdviceInit, AdviceTypeOK, NoRows, Types

\* The samples of a cluster, of which it has some.
Series == Seq(Utilizations) \ {<<>>}

LEMMA SeriesGrow ==
    ASSUME NEW u \in Utilizations
    PROVE  <<u>> \in Series /\ \A s \in Series : Append(s, u) \in Series
<1>1. <<u>> \in Seq(Utilizations) /\ <<u>> # <<>>
  OBVIOUS
<1>2. ASSUME NEW s \in Seq(Utilizations)
      PROVE  Append(s, u) \in Seq(Utilizations) /\ Append(s, u) # <<>>
  BY <1>2, AppendProperties
<1> QED BY <1>1, <1>2 DEF Series

LEMMA AdviceTypeStep == AdviceTypeOK /\ [AdviceNext]_adviceVars => AdviceTypeOK'
<1> SUFFICES ASSUME AdviceTypeOK, [AdviceNext]_adviceVars PROVE AdviceTypeOK'
  OBVIOUS
<1>0. samples \in Seq(Series) /\ Len(samples) = Len(clusters) /\ Len(samples) \in Nat
  BY DEF AdviceTypeOK, Series
<1> DEFINE Rows(cs) == [cluster : DOMAIN cs, type : Types]
           Cycle == /\ found \in Types \cup {"unread"} /\ (found # "unread" => todo # <<>>)
                   /\ todo \in Seq(DOMAIN clusters)
           Table == /\ clusters \in Seq(Names)
                    /\ samples \in Seq(Series) /\ Len(samples) = Len(clusters)
                    /\ active \in [DOMAIN active -> Nat \ {0}]
                    /\ DOMAIN active \subseteq Rows(clusters)
           Bounds == name \in Names /\ taken \in 0..MaxSamples /\ restarts \in 0..MaxRestarts
<1>a. Cycle /\ Table /\ Bounds
  BY DEF AdviceTypeOK, Series
<1>b. SUFFICES Cycle' /\ Table' /\ Bounds'
  BY DEF AdviceTypeOK, Series
<1>c. MaxSamples \in Nat /\ MaxRestarts \in Nat
  BY AdviceConstants
<1>d. ASSUME UNCHANGED database PROVE Table' /\ DOMAIN clusters' = DOMAIN clusters
  BY <1>a, <1>d DEF database
<1>e. ASSUME todo' = <<>>, found' = "unread" PROVE Cycle'
  BY <1>e
<1>1. ASSUME NEW u \in Utilizations, Collect(u) PROVE Cycle' /\ Table' /\ Bounds'
  <2>1. UNCHANGED <<name, active, todo, found, restarts>> /\ taken' \in 0..MaxSamples
    BY <1>1, <1>a, <1>c DEF Collect
  <2>2. CASE OwnClusters = {}
    <3>1. clusters' = Append(clusters, name) /\ samples' = Append(samples, <<u>>)
      BY <1>1, <2>2 DEF Collect
    <3>2. /\ clusters' \in Seq(Names) /\ Len(clusters') = Len(clusters) + 1
          /\ DOMAIN clusters \subseteq DOMAIN clusters'
      BY <3>1, <1>a, AppendProperties
    <3>3. samples' \in Seq(Series) /\ Len(samples') = Len(samples) + 1
      BY <3>1, <1>a, SeriesGrow, AppendProperties
    <3>4. todo' \in Seq(DOMAIN clusters') /\ Rows(clusters) \subseteq Rows(clusters')
      BY <2>1, <3>2, <1>a
    <3> QED BY <2>1, <3>2, <3>3, <3>4, <1>a
  <2>3. CASE OwnClusters # {}
    <3>1. /\ clusters' = clusters
          /\ samples' = [c \in DOMAIN samples |->
                            IF c \in OwnClusters THEN Append(samples[c], u) ELSE samples[c]]
      BY <1>1, <2>3 DEF Collect
    <3>2. \A c \in 1..Len(samples) : samples[c] \in Series /\ Append(samples[c], u) \in Series
      BY <1>0, SeriesGrow, ElementOfSeq
    <3>3. samples' \in [1..Len(samples) -> Series]
      BY <1>0, <3>1, <3>2
    <3>4. samples' \in Seq(Series) /\ Len(samples') = Len(samples)
      BY <1>0, <3>3, SeqDef
    <3> QED BY <2>1, <3>1, <3>4, <1>a
  <2> QED BY <2>2, <2>3
<1>2. ASSUME NEW c \in DOMAIN clusters, Analyze(c) PROVE Cycle' /\ Table' /\ Bounds'
  <2>1. UNCHANGED <<name, database, taken, restarts>>
    BY <1>2 DEF Analyze
  <2>2. Rule(c) \in Types \cup {"none"}
    BY DEF Rule, Types
  <2>3. \/ todo' = Tail(todo) /\ found' = "unread" /\ todo # <<>>
        \/ todo' = todo /\ found' \in Types /\ todo # <<>>
    BY <1>2, <2>2 DEF Analyze
  <2>4. clusters' = clusters /\ Types' = Types
    BY <2>1 DEF database, Types
  <2>5. CASE todo' = Tail(todo) /\ found' = "unread" /\ todo # <<>>
    <3>1. Tail(todo) \in Seq(DOMAIN clusters)
      BY <2>5, <1>a
    <3> QED BY <2>1, <2>4, <2>5, <3>1, <1>a, <1>d
  <2>6. CASE todo' = todo /\ found' \in Types /\ todo # <<>>
    BY <2>1, <2>4, <2>6, <1>a, <1>d
  <2> QED BY <2>3, <2>5, <2>6
<1>3. ASSUME NEW c \in DOMAIN clusters, Save(c) PROVE Cycle' /\ Table' /\ Bounds'
  <2> DEFINE row == [cluster |-> c, type |-> found]
             left == DOMAIN active \ {a \in DOMAIN active : a.cluster = row.cluster}
             kept == [a \in left |-> active[a]]
  <2>1. active' = [a \in left \cup {row} |-> IF a = row THEN 1 ELSE active[a]]
    <3>1. Resolve(row) = kept
      BY DEF Resolve, Without
    <3>2. active' = BagAdd(kept, row)
      BY <1>3, <3>1 DEF Save
    <3> QED BY <3>2 DEF BagAdd
  <2>2. row \in Rows(clusters)
    BY <1>3, <1>a DEF Save
  <2>3. /\ active' \in [DOMAIN active' -> Nat \ {0}]
        /\ DOMAIN active' \subseteq Rows(clusters)
    BY <2>1, <2>2, <1>a
  <2>4. UNCHANGED <<name, clusters, samples, taken, restarts>>
    BY <1>3 DEF Save
  <2>5. todo' \in Seq(DOMAIN clusters) /\ found' = "unread"
    BY <1>3, <1>a DEF Save
  <2> QED BY <2>3, <2>4, <2>5, <1>a
<1>4. ASSUME Begin PROVE Cycle' /\ Table' /\ Bounds'
  <2>1. todo' = [c \in 1..Len(clusters) |-> c] /\ DOMAIN clusters = 1..Len(clusters) /\ Len(clusters) \in Nat
    BY <1>4, <1>a DEF Begin
  <2>2. clusters # <<>> /\ UNCHANGED <<name, database, found, taken, restarts>>
    BY <1>4 DEF Begin
  <2>3. Len(clusters) # 0
    BY <2>2, <1>a, EmptySeq
  <2>4. todo' \in Seq(1..Len(clusters)) /\ todo' # <<>>
    BY <2>1, <2>3, SeqDef
  <2> QED BY <2>1, <2>2, <2>4, <1>a, <1>d DEF database
<1>5. ASSUME Abort PROVE Cycle' /\ Table' /\ Bounds'
  BY <1>5, <1>a, <1>d, <1>e DEF Abort
<1>6. ASSUME AdviceRestart PROVE Cycle' /\ Table' /\ Bounds'
  <2>1. Cycle' /\ Bounds'
    BY <1>6, <1>a, <1>c, <1>e DEF AdviceRestart
  <2>2. CASE UNCHANGED database
    BY <2>1, <2>2, <1>d
  <2>3. CASE clusters' = <<>> /\ samples' = <<>> /\ active' = NoRows
    <3>1. active' \in [DOMAIN active' -> Nat \ {0}] /\ DOMAIN active' = {}
      BY <2>3 DEF NoRows
    <3> QED BY <2>1, <2>3, <3>1
  <2> QED BY <1>6, <2>2, <2>3 DEF AdviceRestart
<1>7. ASSUME UNCHANGED adviceVars PROVE Cycle' /\ Table' /\ Bounds'
  BY <1>7, <1>a, <1>d DEF adviceVars, database
<1> QED
  BY <1>1, <1>2, <1>3, <1>4, <1>5, <1>6, <1>7 DEF AdviceNext, AdviceStep

(***************************************************************************)
(* Clusters, samples, recommendations and the running cycle have the types *)
(* the code relies on; what is Active is a cluster that is registered.     *)
(***************************************************************************)
THEOREM AdviceTypes == AdviceSpec => []AdviceTypeOK
  BY AdviceTypeInit, AdviceTypeStep, PTL DEF AdviceSpec
================================================================================
