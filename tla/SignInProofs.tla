---------------------------- MODULE SignInProofs ----------------------------
(***************************************************************************)
(* The sessions and the sign-ins of SignIn, for any number of processes    *)
(* and any lifetimes.                                                      *)
(***************************************************************************)
EXTENDS SignIn, TLAPS

-----------------------------------------------------------------------------
(* TypeOK in two parts: what handlers do to sessions, and to sign-ins. *)
SessionTypes ==
    /\ DOMAIN created \subseteq Tokens
    /\ created \in [DOMAIN created -> [expires : Nat, state : DOMAIN begun \cup {NoState}, kept : BOOLEAN]]
    /\ DOMAIN disk \subseteq DOMAIN created /\ disk \in [DOMAIN disk -> Nat]
    /\ DOMAIN keepers \subseteq DOMAIN created /\ keepers \in [DOMAIN keepers -> SUBSET Servers]
    /\ DOMAIN memory = Servers
    /\ \A s \in Servers : DOMAIN memory[s] \subseteq DOMAIN created /\ memory[s] \in [DOMAIN memory[s] -> Nat]

SignInTypesOK ==
    /\ now \in Nat
    /\ DOMAIN begun \subseteq States /\ DOMAIN minted \subseteq Codes
    /\ begun \in [DOMAIN begun -> Nat] /\ minted \in [DOMAIN minted -> DOMAIN begun]
    /\ DOMAIN pending = Servers /\ DOMAIN codes = Servers /\ DOMAIN newest = Servers
    /\ \A s \in Servers :
         /\ DOMAIN pending[s] \subseteq DOMAIN begun /\ pending[s] \in [DOMAIN pending[s] -> Nat]
         /\ DOMAIN codes[s] \subseteq DOMAIN minted /\ codes[s] \in [DOMAIN codes[s] -> Nat]
         /\ newest[s] \in DOMAIN begun \cup {NoState}

LEMMA TypesSplit == SessionTypes /\ SignInTypesOK => TypeOK
  BY DEF SessionTypes, SignInTypesOK, TypeOK

\* What the sessions' part promises.
CopiesAgree ==
    /\ \A t \in DOMAIN disk : disk[t] = created[t].expires
    /\ \A s \in Servers : \A t \in DOMAIN memory[s] : memory[s][t] = created[t].expires
RowsStay ==
    \A t \in DOMAIN created \ DOMAIN keepers :
        created[t].kept /\ now <= created[t].expires => t \in DOMAIN disk
LogoutsHold ==
    \A t \in DOMAIN keepers :
        /\ t \in DOMAIN disk => keepers[t] = Servers
        /\ \A s \in Servers : t \in DOMAIN memory[s] => s \in keepers[t]
SessionInv == SessionTypes /\ CopiesAgree /\ RowsStay /\ LogoutsHold

LEMMA CreateKeeps ==
    ASSUME SignInConstants, SessionInv, now \in Nat, now' = now, DOMAIN begun \subseteq DOMAIN begun',
           NEW s \in Servers, NEW st \in DOMAIN begun \cup {NoState}, CreateSession(s, st)
    PROVE  SessionInv'
<1>1. PICK t \in Tokens \ DOMAIN created, kept \in BOOLEAN :
        /\ memory' = [memory EXCEPT ![s] = With(memory[s], t, now + SessionTtl)]
        /\ disk' = IF kept THEN With(disk, t, now + SessionTtl) ELSE disk
        /\ created' = With(created, t, [expires |-> now + SessionTtl, state |-> st, kept |-> kept])
        /\ UNCHANGED keepers
  BY DEF CreateSession
<1> DEFINE session == [expires |-> now + SessionTtl, state |-> st, kept |-> kept]
           types == [expires : Nat, state : DOMAIN begun' \cup {NoState}, kept : BOOLEAN]
<1>2. now + SessionTtl \in Nat
  BY DEF SignInConstants
<1>3. created \in [DOMAIN created -> types] /\ session \in types
  <2>1. created \in [DOMAIN created -> [expires : Nat, state : DOMAIN begun \cup {NoState}, kept : BOOLEAN]]
    BY DEF SessionInv, SessionTypes
  <2> QED BY <1>2, <2>1
<1>4. /\ created' \in [DOMAIN created \cup {t} -> types]
      /\ DOMAIN created' = DOMAIN created \cup {t}
      /\ created'[t] = session
      /\ \A x \in DOMAIN created : x # t => created'[x] = created[x]
  <2> HIDE DEF session, types
  <2>1. created' = With(created, t, session)
    BY <1>1 DEF session
  <2> QED BY <1>3, <2>1 DEF With
<1>5. /\ disk' \in [DOMAIN disk' -> Nat]
      /\ DOMAIN disk' = IF kept THEN DOMAIN disk \cup {t} ELSE DOMAIN disk
      /\ \A x \in DOMAIN disk' : disk'[x] = IF x = t /\ kept THEN now + SessionTtl ELSE disk[x]
  <2>1. disk \in [DOMAIN disk -> Nat] /\ t \notin DOMAIN disk
    BY DEF SessionInv, SessionTypes
  <2>2. CASE kept
    BY <1>1, <1>2, <2>1, <2>2 DEF With
  <2>3. CASE ~kept
    BY <1>1, <2>1, <2>3
  <2> QED BY <2>2, <2>3
<1>6. /\ DOMAIN memory' = Servers
      /\ \A r \in Servers : r # s => memory'[r] = memory[r]
      /\ memory'[s] \in [DOMAIN memory[s] \cup {t} -> Nat]
      /\ DOMAIN memory'[s] = DOMAIN memory[s] \cup {t}
      /\ memory'[s][t] = now + SessionTtl
      /\ \A x \in DOMAIN memory[s] : x # t => memory'[s][x] = memory[s][x]
  <2>1. DOMAIN memory = Servers /\ memory[s] \in [DOMAIN memory[s] -> Nat]
    BY DEF SessionInv, SessionTypes
  <2>2. memory' = [memory EXCEPT ![s] = With(memory[s], t, now + SessionTtl)]
    BY <1>1
  <2>3. /\ DOMAIN memory' = Servers /\ memory'[s] = With(memory[s], t, now + SessionTtl)
        /\ \A r \in Servers : r # s => memory'[r] = memory[r]
    BY <2>1, <2>2
  <2>4. /\ With(memory[s], t, now + SessionTtl) \in [DOMAIN memory[s] \cup {t} -> Nat]
        /\ With(memory[s], t, now + SessionTtl)[t] = now + SessionTtl
        /\ \A x \in DOMAIN memory[s] : x # t => With(memory[s], t, now + SessionTtl)[x] = memory[s][x]
    BY <1>2, <2>1 DEF With
  <2> QED BY <2>3, <2>4
<1>7. SessionTypes'
  BY <1>1, <1>4, <1>5, <1>6 DEF SessionInv, SessionTypes
<1>8. CopiesAgree'
  <2>1. created'[t].expires = now + SessionTtl /\ t \notin DOMAIN disk
    BY <1>4 DEF SessionInv, SessionTypes
  <2>2. \A x \in DOMAIN disk' : disk'[x] = created'[x].expires
    BY <1>4, <1>5, <2>1 DEF SessionInv, SessionTypes, CopiesAgree
  <2>3. \A x \in DOMAIN memory'[s] : memory'[s][x] = created'[x].expires
    BY <1>4, <1>6, <2>1 DEF SessionInv, SessionTypes, CopiesAgree
  <2>4. \A r \in Servers : r # s => \A x \in DOMAIN memory'[r] : memory'[r][x] = created'[x].expires
    BY <1>4, <1>6 DEF SessionInv, SessionTypes, CopiesAgree
  <2> QED BY <2>2, <2>3, <2>4 DEF CopiesAgree
<1>9. RowsStay'
  BY <1>1, <1>4, <1>5 DEF SessionInv, SessionTypes, RowsStay
<1>10. LogoutsHold'
  BY <1>1, <1>5, <1>6 DEF SessionInv, SessionTypes, LogoutsHold
<1> QED BY <1>7, <1>8, <1>9, <1>10 DEF SessionInv

LEMMA UntouchedKeeps ==
    ASSUME SessionInv, UNCHANGED sessions, now \in Nat, now' \in Nat, now <= now',
           DOMAIN begun \subseteq DOMAIN begun'
    PROVE  SessionInv'
<1>1. SessionTypes'
  BY DEF SessionInv, SessionTypes, sessions
<1>2. CopiesAgree'
  BY DEF SessionInv, CopiesAgree, sessions
<1>3. RowsStay'
  BY DEF SessionInv, SessionTypes, RowsStay, sessions
<1>4. LogoutsHold'
  BY DEF SessionInv, LogoutsHold, sessions
<1> QED BY <1>1, <1>2, <1>3, <1>4 DEF SessionInv

LEMMA CacheKeeps ==
    ASSUME SessionInv, NEW s \in Servers, NEW t \in Tokens, CacheRow(s, t)
    PROVE  SessionInv'
<1>1. /\ DOMAIN memory' = Servers /\ memory'[s] = With(memory[s], t, disk[t])
      /\ \A r \in Servers : r # s => memory'[r] = memory[r]
      /\ t \in DOMAIN disk
      /\ UNCHANGED <<now, disk, created, keepers, begun>>
  BY DEF CacheRow, Stored, SessionInv, SessionTypes, signIns
<1>2. /\ DOMAIN memory'[s] = DOMAIN memory[s] \cup {t}
      /\ \A x \in DOMAIN memory'[s] : memory'[s][x] = IF x = t THEN disk[t] ELSE memory[s][x]
      /\ memory'[s] \in [DOMAIN memory'[s] -> Nat]
  BY <1>1 DEF With, SessionInv, SessionTypes
<1>3. SessionTypes'
  BY <1>1, <1>2 DEF SessionInv, SessionTypes
<1>4. CopiesAgree'
  BY <1>1, <1>2 DEF SessionInv, CopiesAgree
<1>5. RowsStay'
  BY <1>1 DEF SessionInv, RowsStay
<1>6. LogoutsHold'
  BY <1>1, <1>2 DEF SessionInv, LogoutsHold
<1> QED BY <1>3, <1>4, <1>5, <1>6 DEF SessionInv

\* What destroy_session leaves, of memory and of the table.
Leaves(s, t) ==
    /\ DOMAIN memory' = Servers
    /\ \A r \in Servers :
         /\ DOMAIN memory'[r] = IF r = s THEN DOMAIN memory[s] \ {t} ELSE DOMAIN memory[r]
         /\ memory'[r] \in [DOMAIN memory'[r] -> Nat]
         /\ \A x \in DOMAIN memory'[r] : memory'[r][x] = memory[r][x]
    /\ DOMAIN disk' \subseteq DOMAIN disk
    /\ \A x \in DOMAIN disk : x # t => x \in DOMAIN disk'
    /\ disk' \in [DOMAIN disk' -> Nat]
    /\ \A x \in DOMAIN disk' : disk'[x] = disk[x]

LEMMA DestroyLeaves ==
    ASSUME SessionInv, NEW s \in Servers, NEW t \in Tokens, DestroySession(s, t)
    PROVE  Leaves(s, t)
<1>1. /\ DOMAIN memory' = Servers /\ memory'[s] = Without(memory[s], t)
      /\ \A r \in Servers : r # s => memory'[r] = memory[r]
  BY DEF DestroySession, SessionInv, SessionTypes
<1>2. disk' = disk \/ disk' = Without(disk, t)
  BY DEF DestroySession
<1>3. /\ DOMAIN memory'[s] = DOMAIN memory[s] \ {t}
      /\ memory'[s] \in [DOMAIN memory'[s] -> Nat]
      /\ \A x \in DOMAIN memory'[s] : memory'[s][x] = memory[s][x]
  BY <1>1 DEF Without, Restrict, SessionInv, SessionTypes
<1>4. \A r \in Servers : r # s =>
        /\ DOMAIN memory'[r] = DOMAIN memory[r]
        /\ memory'[r] \in [DOMAIN memory'[r] -> Nat]
        /\ \A x \in DOMAIN memory'[r] : memory'[r][x] = memory[r][x]
  BY <1>1 DEF SessionInv, SessionTypes
<1>5. disk \in [DOMAIN disk -> Nat]
  BY DEF SessionInv, SessionTypes
<1>6. CASE disk' = disk
  BY <1>1, <1>3, <1>4, <1>5, <1>6 DEF Leaves
<1>7. CASE disk' = Without(disk, t)
  <2>1. /\ DOMAIN disk' = DOMAIN disk \ {t}
        /\ disk' \in [DOMAIN disk' -> Nat]
        /\ \A x \in DOMAIN disk' : disk'[x] = disk[x]
    BY <1>5, <1>7 DEF Without, Restrict
  <2> QED BY <1>1, <1>3, <1>4, <2>1 DEF Leaves
<1> QED BY <1>2, <1>6, <1>7

LEMMA DestroyAgrees ==
    ASSUME SessionInv, NEW s \in Servers, NEW t \in Tokens, Leaves(s, t), UNCHANGED created
    PROVE  CopiesAgree'
  BY DEF Leaves, SessionInv, CopiesAgree

LEMMA DropKeeps ==
    ASSUME SessionInv, now \in Nat, NEW s \in Servers, NEW t \in Tokens, DropRow(s, t)
    PROVE  SessionInv'
<1>1. t \in DOMAIN disk /\ ~Stored(t) /\ Leaves(s, t) /\ UNCHANGED <<now, created, keepers, begun>>
  BY DestroyLeaves DEF DropRow, signIns
<1>2. ~(now <= created[t].expires)
  BY <1>1 DEF Stored, SessionInv, CopiesAgree
<1>3. SessionTypes'
  BY <1>1 DEF Leaves, SessionInv, SessionTypes
<1>4. CopiesAgree'
  BY <1>1, DestroyAgrees
<1>5. RowsStay'
  BY <1>1, <1>2 DEF Leaves, SessionInv, RowsStay
<1>6. LogoutsHold'
  BY <1>1 DEF Leaves, SessionInv, LogoutsHold
<1> QED BY <1>3, <1>4, <1>5, <1>6 DEF SessionInv

LEMMA LogoutKeeps ==
    ASSUME SessionInv, NEW s \in Servers, NEW t \in Tokens, Logout(s, t)
    PROVE  SessionInv'
<1> DEFINE left == IF t \in DOMAIN disk' THEN Servers ELSE {r \in Servers \ {s} : t \in DOMAIN memory[r]}
<1>1. /\ t \in DOMAIN created /\ Leaves(s, t)
      /\ keepers' = With(keepers, t, left)
      /\ UNCHANGED <<now, created, begun>>
  BY DestroyLeaves DEF Logout, signIns
<1>2. /\ left \in SUBSET Servers
      /\ t \in DOMAIN disk' => left = Servers
      /\ \A r \in Servers : t \in DOMAIN memory'[r] => r \in left
  BY <1>1 DEF Leaves
<1> HIDE DEF left
<1>3. /\ DOMAIN keepers' = DOMAIN keepers \cup {t}
      /\ keepers'[t] = left
      /\ \A x \in DOMAIN keepers : x # t => keepers'[x] = keepers[x]
      /\ keepers' \in [DOMAIN keepers' -> SUBSET Servers]
  BY <1>1, <1>2 DEF With, SessionInv, SessionTypes
<1>4. SessionTypes'
  BY <1>1, <1>3 DEF Leaves, SessionInv, SessionTypes
<1>5. CopiesAgree'
  BY <1>1, DestroyAgrees
<1>6. RowsStay'
  BY <1>1, <1>3 DEF Leaves, SessionInv, RowsStay
<1>7. LogoutsHold'
  <2> SUFFICES ASSUME NEW x \in DOMAIN keepers'
               PROVE  /\ x \in DOMAIN disk' => keepers'[x] = Servers
                      /\ \A r \in Servers : x \in DOMAIN memory'[r] => r \in keepers'[x]
    BY DEF LogoutsHold
  <2>1. CASE x = t
    BY <1>2, <1>3, <2>1
  <2>2. CASE x # t
    BY <1>1, <1>3, <2>2 DEF Leaves, SessionInv, LogoutsHold
  <2> QED BY <2>1, <2>2
<1> QED BY <1>4, <1>5, <1>6, <1>7 DEF SessionInv

LEMMA RestartKeeps ==
    ASSUME SessionInv, NEW s \in Servers, Restart(s)
    PROVE  SessionInv'
<1>1. /\ DOMAIN memory' = Servers /\ memory'[s] = Nothing
      /\ \A r \in Servers : r # s => memory'[r] = memory[r]
      /\ UNCHANGED <<now, disk, created, keepers, begun>>
  BY DEF Restart, SessionInv, SessionTypes
<1>2. DOMAIN memory'[s] = {} /\ memory'[s] \in [DOMAIN memory'[s] -> Nat]
  BY <1>1 DEF Nothing
<1>3. SessionTypes'
  BY <1>1, <1>2 DEF SessionInv, SessionTypes
<1>4. CopiesAgree'
  BY <1>1, <1>2 DEF SessionInv, CopiesAgree
<1>5. RowsStay'
  BY <1>1 DEF SessionInv, RowsStay
<1>6. LogoutsHold'
  BY <1>1, <1>2 DEF SessionInv, LogoutsHold
<1> QED BY <1>3, <1>4, <1>5, <1>6 DEF SessionInv
-----------------------------------------------------------------------------
\* What the sign-ins' part promises.
PendingAgree == \A s \in Servers : \A st \in DOMAIN pending[s] : pending[s][st] = begun[st]
StatesApart ==
    /\ \A s, r \in Servers : s # r => DOMAIN pending[s] \cap DOMAIN pending[r] = {}
    /\ \A s \in Servers, t \in DOMAIN created : created[t].state \notin DOMAIN pending[s]
SignInInv == SignInTypesOK /\ PendingAgree /\ StatesApart /\ OneSessionPerState /\ NewestSignInHonoured

LEMMA CreateAdds ==
    ASSUME NEW s, NEW st, CreateSession(s, st)
    PROVE  \E t \in Tokens \ DOMAIN created :
             /\ DOMAIN created' = DOMAIN created \cup {t}
             /\ created'[t].state = st
             /\ \A x \in DOMAIN created : created'[x] = created[x]
  BY DEF CreateSession, With

LEMMA IdleKeeps ==
    ASSUME SignInInv, UNCHANGED signIns, now' \in Nat, now <= now', UNCHANGED created
    PROVE  SignInInv'
<1>1. SignInTypesOK' /\ PendingAgree' /\ StatesApart' /\ OneSessionPerState'
  BY DEF SignInInv, SignInTypesOK, PendingAgree, StatesApart, OneSessionPerState, signIns
<1>2. NewestSignInHonoured'
  <2> SUFFICES ASSUME NEW s \in Servers, newest[s] # NoState, now' < begun[newest[s]]
               PROVE  newest[s] \in DOMAIN pending[s]
    BY DEF NewestSignInHonoured, signIns
  <2>1. begun[newest[s]] \in Nat /\ now \in Nat
    BY DEF SignInInv, SignInTypesOK
  <2> QED BY <2>1 DEF SignInInv, NewestSignInHonoured
<1> QED BY <1>1, <1>2 DEF SignInInv

LEMMA LoginKeeps ==
    ASSUME SignInConstants, SignInInv, NEW s \in Servers, Login(s)
    PROVE  SignInInv'
<1>1. PICK t \in Tokens \ DOMAIN created :
        /\ DOMAIN created' = DOMAIN created \cup {t}
        /\ created'[t].state = NoState
        /\ \A x \in DOMAIN created : created'[x] = created[x]
  BY CreateAdds DEF Login
<1>2. UNCHANGED <<now, pending, codes, begun, minted, newest>>
  BY DEF Login, signIns
<1>3. SignInTypesOK' /\ PendingAgree' /\ NewestSignInHonoured'
  BY <1>2 DEF SignInInv, SignInTypesOK, PendingAgree, NewestSignInHonoured
<1>4. \A r \in Servers : NoState \notin DOMAIN pending[r]
  BY DEF SignInConstants, SignInInv, SignInTypesOK
<1>5. StatesApart'
  BY <1>1, <1>2, <1>4 DEF SignInInv, StatesApart
<1>6. OneSessionPerState'
  BY <1>1 DEF SignInInv, OneSessionPerState
<1> QED BY <1>3, <1>5, <1>6 DEF SignInInv

LEMMA BeginKeeps ==
    ASSUME SignInConstants, SessionTypes, SignInInv, NEW s \in Servers, BeginSignIn(s)
    PROVE  SignInInv'
<1> DEFINE end == now + StateTtl
<1>1. end \in Nat /\ now \in Nat
  BY DEF SignInConstants, SignInInv, SignInTypesOK
<1>2. PICK st \in States \ DOMAIN begun :
        /\ pending' = [pending EXCEPT ![s] = With(Unexpired(pending[s], end), st, end)]
        /\ codes' = [codes EXCEPT ![s] = Unexpired(codes[s], end)]
        /\ begun' = With(begun, st, end)
        /\ newest' = [newest EXCEPT ![s] = st]
        /\ UNCHANGED <<now, created, minted>>
  BY DEF BeginSignIn, sessions
<1> HIDE DEF end
<1>3. /\ DOMAIN begun' = DOMAIN begun \cup {st} /\ begun'[st] = end
      /\ \A x \in DOMAIN begun : begun'[x] = begun[x]
      /\ begun' \in [DOMAIN begun' -> Nat]
  BY <1>1, <1>2 DEF With, SignInInv, SignInTypesOK
<1>4. /\ DOMAIN pending' = Servers /\ DOMAIN codes' = Servers /\ DOMAIN newest' = Servers
      /\ pending'[s] = With(Unexpired(pending[s], end), st, end)
      /\ codes'[s] = Unexpired(codes[s], end) /\ newest'[s] = st
      /\ \A r \in Servers : r # s =>
           pending'[r] = pending[r] /\ codes'[r] = codes[r] /\ newest'[r] = newest[r]
  BY <1>2 DEF SignInInv, SignInTypesOK
<1>5. /\ st \in DOMAIN pending'[s] /\ pending'[s][st] = end
      /\ \A x \in DOMAIN pending'[s] : x # st => x \in DOMAIN pending[s] /\ pending'[s][x] = pending[s][x]
      /\ pending'[s] \in [DOMAIN pending'[s] -> Nat]
  BY <1>1, <1>4 DEF With, Unexpired, Restrict, SignInInv, SignInTypesOK
<1>6. /\ DOMAIN codes'[s] \subseteq DOMAIN codes[s]
      /\ codes'[s] \in [DOMAIN codes'[s] -> Nat]
  BY <1>4 DEF Unexpired, Restrict, SignInInv, SignInTypesOK
<1>7. SignInTypesOK'
  BY <1>1, <1>2, <1>3, <1>4, <1>5, <1>6 DEF SignInInv, SignInTypesOK
<1>8. PendingAgree'
  BY <1>3, <1>4, <1>5 DEF SignInInv, SignInTypesOK, PendingAgree
<1>9. st # NoState /\ \A r \in Servers : st \notin DOMAIN pending[r]
  BY DEF SignInConstants, SignInInv, SignInTypesOK
<1>10. \A t \in DOMAIN created : created[t].state # st
  BY <1>9 DEF SessionTypes
<1>11. StatesApart'
  BY <1>2, <1>4, <1>5, <1>9, <1>10 DEF SignInInv, StatesApart
<1>12. OneSessionPerState'
  BY <1>2 DEF SignInInv, OneSessionPerState
<1>13. NewestSignInHonoured'
  <2>1. newest'[s] \in DOMAIN pending'[s]
    BY <1>4, <1>5
  <2>2. ASSUME NEW r \in Servers, r # s, newest'[r] # NoState, now' < begun'[newest'[r]]
        PROVE  newest'[r] \in DOMAIN pending'[r]
    BY <1>2, <1>3, <1>4, <2>2 DEF SignInInv, SignInTypesOK, NewestSignInHonoured
  <2> QED BY <2>1, <2>2 DEF NewestSignInHonoured
<1> QED BY <1>7, <1>8, <1>11, <1>12, <1>13 DEF SignInInv

LEMMA AuthorizeKeeps ==
    ASSUME SignInConstants, SignInInv, NEW s \in Servers, Authorize(s)
    PROVE  SignInInv'
<1>1. PICK c \in Codes \ DOMAIN minted, st \in DOMAIN begun :
        /\ codes' = [codes EXCEPT ![s] = With(codes[s], c, now + CodeTtl)]
        /\ minted' = With(minted, c, st)
        /\ UNCHANGED <<now, created, pending, begun, newest>>
  BY DEF Authorize, sessions
<1>2. now + CodeTtl \in Nat
  BY DEF SignInConstants, SignInInv, SignInTypesOK
<1>3. DOMAIN minted' = DOMAIN minted \cup {c} /\ minted' \in [DOMAIN minted' -> DOMAIN begun]
  BY <1>1 DEF With, SignInInv, SignInTypesOK
<1>4. /\ DOMAIN codes' = Servers /\ codes'[s] = With(codes[s], c, now + CodeTtl)
      /\ \A r \in Servers : r # s => codes'[r] = codes[r]
  BY <1>1 DEF SignInInv, SignInTypesOK
<1>5. DOMAIN codes'[s] = DOMAIN codes[s] \cup {c} /\ codes'[s] \in [DOMAIN codes'[s] -> Nat]
  BY <1>2, <1>4 DEF With, SignInInv, SignInTypesOK
<1>6. SignInTypesOK'
  BY <1>1, <1>3, <1>4, <1>5 DEF SignInInv, SignInTypesOK
<1>7. PendingAgree' /\ StatesApart' /\ OneSessionPerState' /\ NewestSignInHonoured'
  BY <1>1 DEF SignInInv, PendingAgree, StatesApart, OneSessionPerState, NewestSignInHonoured
<1> QED BY <1>6, <1>7 DEF SignInInv

\* What a purge as of now, of the states and codes of one process, leaves.
Purged(s, gone) ==
    /\ DOMAIN pending' = Servers /\ DOMAIN codes' = Servers
    /\ \A r \in Servers : r # s => pending'[r] = pending[r] /\ codes'[r] = codes[r]
    /\ DOMAIN pending'[s] = {k \in DOMAIN pending[s] : pending[s][k] > now /\ k \notin gone}
    /\ pending'[s] \in [DOMAIN pending'[s] -> Nat]
    /\ \A k \in DOMAIN pending'[s] : pending'[s][k] = pending[s][k]
    /\ DOMAIN codes'[s] \subseteq DOMAIN codes[s]
    /\ codes'[s] \in [DOMAIN codes'[s] -> Nat]

LEMMA PurgeKeeps ==
    ASSUME SignInInv, NEW s \in Servers, NEW gone, Purged(s, gone),
           UNCHANGED <<now, begun, minted>>,
           DOMAIN newest' = Servers,
           \A r \in Servers : newest'[r] = newest[r] \/ newest'[r] = NoState,
           newest'[s] \notin gone
    PROVE  /\ SignInTypesOK' /\ PendingAgree' /\ NewestSignInHonoured'
           /\ \A r, q \in Servers : r # q => DOMAIN pending'[r] \cap DOMAIN pending'[q] = {}
<1>1. SignInTypesOK'
  <2>1. \A r \in Servers : newest'[r] \in DOMAIN begun \cup {NoState}
    BY DEF SignInInv, SignInTypesOK
  <2> QED BY <2>1 DEF Purged, SignInInv, SignInTypesOK
<1>2. PendingAgree'
  BY DEF Purged, SignInInv, PendingAgree
<1>3. NewestSignInHonoured'
  <2> SUFFICES ASSUME NEW r \in Servers, newest'[r] # NoState, now < begun[newest'[r]]
               PROVE  newest'[r] \in DOMAIN pending'[r]
    BY DEF NewestSignInHonoured
  <2>1. newest'[r] = newest[r] /\ newest[r] \in DOMAIN pending[r]
    BY DEF SignInInv, NewestSignInHonoured
  <2>2. CASE r # s
    BY <2>1, <2>2 DEF Purged
  <2>3. CASE r = s
    <3>1. pending[s][newest[s]] = begun[newest[s]]
      BY <2>1, <2>3 DEF SignInInv, PendingAgree
    <3>2. begun[newest[s]] \in Nat /\ now \in Nat
      BY <2>1, <2>3 DEF SignInInv, SignInTypesOK
    <3> QED BY <2>1, <2>3, <3>1, <3>2 DEF Purged
  <2> QED BY <2>2, <2>3
<1>4. \A r, q \in Servers : r # q => DOMAIN pending'[r] \cap DOMAIN pending'[q] = {}
  BY DEF Purged, SignInInv, StatesApart
<1> QED BY <1>1, <1>2, <1>3, <1>4

LEMMA RefuseKeeps ==
    ASSUME SignInInv, NEW s \in Servers, NEW c, Refuse(s, c)
    PROVE  SignInInv'
<1>1. /\ pending' = [pending EXCEPT ![s] = Unexpired(pending[s], now)]
      /\ codes' = [codes EXCEPT ![s] = Unexpired(codes[s], now)]
      /\ UNCHANGED <<now, created, begun, minted, newest>>
  BY DEF Refuse, sessions
<1>2. Purged(s, {})
  BY <1>1 DEF Purged, Unexpired, Restrict, SignInInv, SignInTypesOK
<1>3. /\ SignInTypesOK' /\ PendingAgree' /\ NewestSignInHonoured'
      /\ \A r, q \in Servers : r # q => DOMAIN pending'[r] \cap DOMAIN pending'[q] = {}
  <2>1. DOMAIN newest' = Servers /\ \A r \in Servers : newest'[r] = newest[r]
    BY <1>1 DEF SignInInv, SignInTypesOK
  <2>2. newest'[s] \notin {} /\ UNCHANGED <<now, begun, minted>>
    BY <1>1
  <2> QED BY <1>2, <2>1, <2>2, PurgeKeeps
<1>4. StatesApart' /\ OneSessionPerState'
  BY <1>1, <1>2, <1>3 DEF Purged, SignInInv, StatesApart, OneSessionPerState
<1> QED BY <1>3, <1>4 DEF SignInInv

LEMMA AcceptKeeps ==
    ASSUME SignInConstants, SignInInv, NEW s \in Servers, NEW c \in DOMAIN minted, Accept(s, c)
    PROVE  SignInInv'
<1> DEFINE st == minted[c]
<1>1. /\ st \in DOMAIN Unexpired(pending[s], now)
      /\ pending' = [pending EXCEPT ![s] = Without(Unexpired(pending[s], now), st)]
      /\ codes' = [codes EXCEPT ![s] = Without(Unexpired(codes[s], now), c)]
      /\ newest' = [newest EXCEPT ![s] = IF newest[s] = st THEN NoState ELSE newest[s]]
      /\ CreateSession(s, st) \/ UNCHANGED created
      /\ UNCHANGED <<now, begun, minted>>
  BY DEF Accept, ConsumeState, OpenSession, sessions
<1> HIDE DEF st
<1>2. st \in DOMAIN pending[s] /\ st # NoState
  BY <1>1 DEF Unexpired, Restrict, SignInInv, SignInTypesOK, SignInConstants
<1>3. Purged(s, {st})
  BY <1>1 DEF Purged, Unexpired, Without, Restrict, SignInInv, SignInTypesOK
<1>4. /\ SignInTypesOK' /\ PendingAgree' /\ NewestSignInHonoured'
      /\ \A r, q \in Servers : r # q => DOMAIN pending'[r] \cap DOMAIN pending'[q] = {}
  <2>1. /\ DOMAIN newest' = Servers /\ newest'[s] # st
        /\ \A r \in Servers : newest'[r] = newest[r] \/ newest'[r] = NoState
    BY <1>1, <1>2 DEF SignInInv, SignInTypesOK
  <2>2. newest'[s] \notin {st} /\ UNCHANGED <<now, begun, minted>>
    BY <1>1, <2>1
  <2> QED BY <1>3, <2>1, <2>2, PurgeKeeps
<1>5. /\ \A r \in Servers : DOMAIN pending'[r] \subseteq DOMAIN pending[r] /\ st \notin DOMAIN pending'[r]
      /\ \A t \in DOMAIN created : created[t].state # st
  BY <1>2, <1>3 DEF Purged, SignInInv, StatesApart
<1>6. CASE UNCHANGED created
  BY <1>4, <1>5, <1>6 DEF SignInInv, StatesApart, OneSessionPerState
<1>7. CASE CreateSession(s, st)
  <2>1. PICK t \in Tokens \ DOMAIN created :
          /\ DOMAIN created' = DOMAIN created \cup {t}
          /\ created'[t].state = st
          /\ \A x \in DOMAIN created : created'[x] = created[x]
    BY <1>7, CreateAdds
  <2>2. StatesApart'
    BY <1>4, <1>5, <2>1 DEF SignInInv, StatesApart
  <2>3. OneSessionPerState'
    BY <1>5, <2>1 DEF SignInInv, OneSessionPerState
  <2> QED BY <1>4, <2>2, <2>3 DEF SignInInv
<1> QED BY <1>1, <1>6, <1>7

LEMMA ForgetKeeps ==
    ASSUME SignInInv, NEW s \in Servers, Restart(s)
    PROVE  SignInInv'
<1>1. /\ DOMAIN pending' = Servers /\ DOMAIN codes' = Servers /\ DOMAIN newest' = Servers
      /\ pending'[s] = Nothing /\ codes'[s] = Nothing /\ newest'[s] = NoState
      /\ \A r \in Servers : r # s =>
           pending'[r] = pending[r] /\ codes'[r] = codes[r] /\ newest'[r] = newest[r]
      /\ UNCHANGED <<now, begun, minted, created>>
  BY DEF Restart, SignInInv, SignInTypesOK
<1>2. DOMAIN Nothing = {} /\ Nothing \in [DOMAIN Nothing -> Nat]
  BY DEF Nothing
<1>3. SignInTypesOK'
  BY <1>1, <1>2 DEF SignInInv, SignInTypesOK
<1>4. PendingAgree' /\ StatesApart' /\ OneSessionPerState' /\ NewestSignInHonoured'
  BY <1>1, <1>2 DEF SignInInv, PendingAgree, StatesApart, OneSessionPerState, NewestSignInHonoured
<1> QED BY <1>3, <1>4 DEF SignInInv
-----------------------------------------------------------------------------
IInv == SessionInv /\ SignInInv

LEMMA IInvInit == SignInConstants /\ Init => IInv
<1> SUFFICES ASSUME SignInConstants, Init PROVE IInv
  OBVIOUS
<1>1. DOMAIN Nothing = {} /\ \A S : Nothing \in [DOMAIN Nothing -> S]
  BY DEF Nothing
<1>2. SessionInv
  BY <1>1 DEF Init, SessionInv, SessionTypes, CopiesAgree, RowsStay, LogoutsHold
<1>3. SignInTypesOK
  BY <1>1 DEF Init, SignInTypesOK
<1>4. PendingAgree /\ StatesApart /\ OneSessionPerState /\ NewestSignInHonoured
  BY <1>1 DEF Init, PendingAgree, StatesApart, OneSessionPerState, NewestSignInHonoured
<1> QED BY <1>2, <1>3, <1>4 DEF IInv, SignInInv

LEMMA IInvStep == SignInConstants /\ IInv /\ [Next]_vars => IInv'
<1> SUFFICES ASSUME SignInConstants, IInv, [Next]_vars PROVE SessionInv' /\ SignInInv'
  BY DEF IInv
<1>0. SessionInv /\ SignInInv /\ now \in Nat
  BY DEF IInv, SignInInv, SignInTypesOK
<1>1. CASE Tick
  <2>1. now' \in Nat /\ now <= now' /\ UNCHANGED sessions /\ UNCHANGED signIns
    BY <1>0, <1>1 DEF Tick
  <2>2. UNCHANGED created /\ DOMAIN begun \subseteq DOMAIN begun'
    BY <2>1 DEF sessions, signIns
  <2> QED BY <1>0, <2>1, <2>2, UntouchedKeeps, IdleKeeps
<1>2. ASSUME NEW s \in Servers, Login(s) PROVE SessionInv' /\ SignInInv'
  <2>1. CreateSession(s, NoState) /\ now' = now /\ DOMAIN begun \subseteq DOMAIN begun'
    BY <1>2 DEF Login, signIns
  <2>2. SessionInv'
    BY <1>0, <2>1, CreateKeeps
  <2> QED BY <1>0, <1>2, <2>2, LoginKeeps
<1>3. ASSUME NEW s \in Servers, NEW t \in Tokens, CacheRow(s, t) \/ DropRow(s, t) \/ Logout(s, t)
      PROVE  SessionInv' /\ SignInInv'
  <2>1. UNCHANGED signIns /\ now' \in Nat /\ now <= now' /\ UNCHANGED created
    BY <1>0, <1>3 DEF CacheRow, DropRow, Logout
  <2>2. SessionInv'
    BY <1>0, <1>3, CacheKeeps, DropKeeps, LogoutKeeps
  <2> QED BY <1>0, <2>1, <2>2, IdleKeeps
<1>4. ASSUME NEW s \in Servers, BeginSignIn(s) PROVE SessionInv' /\ SignInInv'
  <2>1. UNCHANGED sessions /\ now' \in Nat /\ now <= now' /\ DOMAIN begun \subseteq DOMAIN begun'
    BY <1>0, <1>4 DEF BeginSignIn, With
  <2> QED BY <1>0, <1>4, <2>1, UntouchedKeeps, BeginKeeps DEF SessionInv
<1>5. ASSUME NEW s \in Servers, Authorize(s) PROVE SessionInv' /\ SignInInv'
  <2>1. UNCHANGED sessions /\ now' \in Nat /\ now <= now' /\ DOMAIN begun \subseteq DOMAIN begun'
    BY <1>0, <1>5 DEF Authorize
  <2> QED BY <1>0, <1>5, <2>1, UntouchedKeeps, AuthorizeKeeps
<1>6. ASSUME NEW s \in Servers, NEW c \in DOMAIN minted, Refuse(s, c) PROVE SessionInv' /\ SignInInv'
  <2>1. UNCHANGED sessions /\ now' \in Nat /\ now <= now' /\ DOMAIN begun \subseteq DOMAIN begun'
    BY <1>0, <1>6 DEF Refuse
  <2> QED BY <1>0, <1>6, <2>1, UntouchedKeeps, RefuseKeeps
<1>7. ASSUME NEW s \in Servers, NEW c \in DOMAIN minted, Accept(s, c) PROVE SessionInv' /\ SignInInv'
  <2>1. /\ UNCHANGED sessions \/ CreateSession(s, minted[c])
        /\ now' = now /\ now <= now' /\ DOMAIN begun \subseteq DOMAIN begun'
    BY <1>0, <1>7 DEF Accept, OpenSession
  <2>2. minted[c] \in DOMAIN begun \cup {NoState}
    BY <1>0 DEF SignInInv, SignInTypesOK
  <2>3. SessionInv'
    BY <1>0, <2>1, <2>2, UntouchedKeeps, CreateKeeps
  <2> QED BY <1>0, <1>7, <2>3, AcceptKeeps
<1>8. ASSUME NEW s \in Servers, Restart(s) PROVE SessionInv' /\ SignInInv'
  BY <1>0, <1>8, RestartKeeps, ForgetKeeps
<1>9. CASE UNCHANGED vars
  <2>1. /\ UNCHANGED sessions /\ UNCHANGED signIns /\ UNCHANGED created /\ now' \in Nat /\ now <= now'
        /\ DOMAIN begun \subseteq DOMAIN begun'
    BY <1>0, <1>9 DEF vars, sessions, signIns
  <2> QED BY <1>0, <2>1, UntouchedKeeps, IdleKeeps
<1> QED
  BY <1>1, <1>2, <1>3, <1>4, <1>5, <1>6, <1>7, <1>8, <1>9 DEF Next, SessionStep, SignInStep, Callback

LEMMA IInvAlways == Spec => []IInv
<1>1. IInv /\ [Next]_vars => IInv'
  BY IInvStep, SignInConstants
<1>2. Init => IInv
  BY IInvInit, SignInConstants
<1> QED BY <1>1, <1>2, PTL DEF Spec

(* Every table maps what was drawn to what belongs to it. *)
THEOREM SignInTypes == Spec => []TypeOK
<1>1. IInv => TypeOK
  BY TypesSplit DEF IInv, SessionInv, SignInInv
<1> QED BY <1>1, IInvAlways, PTL

(***************************************************************************)
(* No process serves a token past its session's time: memory and table     *)
(* keep the expiry that the session was opened with (auth.py:460-496).     *)
(***************************************************************************)
THEOREM SignInServedInTime == Spec => []ServedInTime
<1>1. IInv => ServedInTime
  BY DEF IInv, SessionInv, SessionTypes, CopiesAgree, ServedInTime, Serves, Cached, Stored
<1> QED BY <1>1, IInvAlways, PTL

(***************************************************************************)
(* A session that was written and not logged out is served to its last     *)
(* instant: only expired rows are dropped (auth.py:465-481).               *)
(***************************************************************************)
THEOREM SignInSessionSurvives == Spec => []SessionSurvives
<1>1. IInv => SessionSurvives
  BY DEF IInv, SessionInv, CopiesAgree, RowsStay, SessionSurvives, Serves, Stored
<1> QED BY <1>1, IInvAlways, PTL

(***************************************************************************)
(* After a logout whose row was deleted, only processes that had read the  *)
(* session serve it: with no row, nobody else can (auth.py:502-512).       *)
(***************************************************************************)
THEOREM SignInLogoutLasts == Spec => []LogoutLasts
<1>1. IInv => LogoutLasts
  BY DEF IInv, SessionInv, LogoutsHold, LogoutLasts, Serves, Cached, Stored
<1> QED BY <1>1, IInvAlways, PTL

(***************************************************************************)
(* A state opens at most one session: it is pending in one process only,   *)
(* and no longer once it was accepted (oauth2.py:111-113).                 *)
(***************************************************************************)
THEOREM SignInOneSessionPerState == Spec => []OneSessionPerState
<1>1. IInv => OneSessionPerState
  BY DEF IInv, SignInInv
<1> QED BY <1>1, IInvAlways, PTL

(***************************************************************************)
(* The last sign-in that a process began is accepted in its time           *)
(* (oauth2.py:98-104).                                                     *)
(***************************************************************************)
THEOREM SignInNewestHonoured == Spec => []NewestSignInHonoured
<1>1. IInv => NewestSignInHonoured
  BY DEF IInv, SignInInv
<1> QED BY <1>1, IInvAlways, PTL
=============================================================================
