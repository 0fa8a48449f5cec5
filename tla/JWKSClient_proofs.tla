------------------------- MODULE JWKSClient_proofs -------------------------
(***************************************************************************)
(* Theorems about JWKSClient, for any number of threads, kids, documents,   *)
(* any lifespan and any size of the key cache.                             *)
(***************************************************************************)
EXTENDS JWKSClient, SequenceTheorems, TLAPS

-----------------------------------------------------------------------------
(* What the sequence operators of the model return.                         *)

(* RemoveAt drops one element and closes the gap (the unlinking of an       *)
(* lru_cache entry).                                                        *)
LEMMA RemoveAtProperties ==
  ASSUME NEW S, NEW s \in Seq(S), NEW i \in 1..Len(s)
  PROVE  /\ SX!RemoveAt(s, i) \in Seq(S)
         /\ Len(SX!RemoveAt(s, i)) = Len(s) - 1
         /\ \A j \in 1..(Len(s) - 1) :
              SX!RemoveAt(s, i)[j] = IF j < i THEN s[j] ELSE s[j + 1]
<1> DEFINE a == SubSeq(s, 1, i - 1)
           b == SubSeq(s, i + 1, Len(s))
<1>1. /\ a \in Seq(S)
      /\ Len(a) = i - 1
      /\ \A j \in 1..(i - 1) : a[j] = s[j]
  BY SubSeqProperties
<1>2. /\ b \in Seq(S)
      /\ Len(b) = Len(s) - i
      /\ \A j \in 1..(Len(s) - i) : b[j] = s[i + j]
  BY SubSeqProperties
<1>3. SX!RemoveAt(s, i) = a \o b
  BY DEF SX!RemoveAt
<1> HIDE DEF a, b
<1>4. /\ a \o b \in Seq(S)
      /\ Len(a \o b) = Len(s) - 1
      /\ \A j \in 1..(Len(s) - 1) :
           (a \o b)[j] = IF j <= i - 1 THEN a[j] ELSE b[j - (i - 1)]
  <2>1. Len(a) + Len(b) = Len(s) - 1
    BY <1>1, <1>2
  <2>2. /\ a \o b \in Seq(S)
        /\ Len(a \o b) = Len(a) + Len(b)
        /\ \A j \in 1..Len(a) + Len(b) :
             (a \o b)[j] = IF j <= Len(a) THEN a[j] ELSE b[j - Len(a)]
    <3>1. a \in Seq(S) /\ b \in Seq(S)
      BY <1>1, <1>2
    <3>2. QED BY <3>1, ConcatProperties
  <2>3. QED
    BY <1>1, <2>1, <2>2
<1>5. ASSUME NEW j \in 1..(Len(s) - 1)
      PROVE  (a \o b)[j] = IF j < i THEN s[j] ELSE s[j + 1]
  <2>1. CASE j < i
    BY <1>1, <1>4, <2>1
  <2>2. CASE ~(j < i)
    <3>1. (a \o b)[j] = b[j - i + 1]
      BY <1>4, <2>2
    <3>2. b[j - i + 1] = s[i + (j - i + 1)]
      BY <1>2, <2>2
    <3>3. QED BY <2>2, <3>1, <3>2
  <2>3. QED BY <2>1, <2>2
<1>6. QED
  BY <1>3, <1>4, <1>5

(* Moving an element to the end (an lru_cache hit) permutes the sequence:   *)
(* each new place holds the old element of one place of its own.            *)
LEMMA MoveToEndProperties ==
  ASSUME NEW S, NEW s \in Seq(S), NEW i \in 1..Len(s)
  PROVE  /\ Append(SX!RemoveAt(s, i), s[i]) \in Seq(S)
         /\ Len(Append(SX!RemoveAt(s, i), s[i])) = Len(s)
         /\ \A j \in 1..Len(s) :
              Append(SX!RemoveAt(s, i), s[i])[j]
                = s[IF j = Len(s) THEN i ELSE IF j < i THEN j ELSE j + 1]
<1> DEFINE r == SX!RemoveAt(s, i)
           n == Len(s)
<1>1. /\ r \in Seq(S)
      /\ Len(r) = n - 1
      /\ \A j \in 1..(n - 1) : r[j] = IF j < i THEN s[j] ELSE s[j + 1]
  BY RemoveAtProperties
<1>2. s[i] \in S /\ n \in Nat
  OBVIOUS
<1> HIDE DEF r, n
<1>3. /\ Append(r, s[i]) \in Seq(S)
      /\ Len(Append(r, s[i])) = n
      /\ \A j \in 1..(n - 1) : Append(r, s[i])[j] = r[j]
      /\ Append(r, s[i])[n] = s[i]
  BY <1>1, <1>2, AppendProperties
<1>4. ASSUME NEW j \in 1..n
      PROVE  Append(r, s[i])[j]
               = s[IF j = n THEN i ELSE IF j < i THEN j ELSE j + 1]
  <2>1. CASE j = n
    BY <1>3, <2>1
  <2>2. CASE j # n
    BY <1>1, <1>2, <1>3, <2>2
  <2>3. QED BY <2>1, <2>2
<1>5. QED
  BY <1>3, <1>4 DEF r, n

-----------------------------------------------------------------------------
(* Types.                                                                   *)

LEMMA BlankType == Blank \in Frame
BY DEF Blank, Frame, Ops, Failures, Outcomes, NoSet

LEMMA InitType == Init => TypeOK
<1> SUFFICES ASSUME Init PROVE TypeOK
  OBVIOUS
<1> USE LifespanAssumption, ClientAssumption
<1>1. PICK d \in Docs : published = <<d>>
  BY DEF Init
<1>2. published \in Seq(Docs) /\ Len(published) = 1
  BY <1>1
<1>3. call \in [Threads -> Frame] /\ pc \in [Threads -> Labels]
  BY BlankType DEF Init, Labels
<1>4. lru \in Seq(KeyEntry) /\ Len(lru) = 0
  BY DEF Init
<1>5. Horizon \in Nat /\ 0 \in Version
  BY <1>2 DEF Horizon, Version
<1>6. \A t \in Threads : call[t].data = 0 /\ call[t].since = 0
  BY DEF Init, Blank, NoSet
<1>7. age \in 0..Horizon /\ uptime \in 0..Horizon /\ held \in 0..Horizon
  BY <1>5 DEF Init, CacheInit
<1>8. jwkSet \in Version /\ writer \in Threads
  BY <1>5 DEF Init, CacheInit, NoSet
<1>9. QED
  BY <1>2, <1>3, <1>4, <1>5, <1>6, <1>7, <1>8 DEF TypeOK

(* A step of one thread on its own frame keeps the types if it keeps the    *)
(* frame's.                                                                 *)
LEMMA LocalType ==
  ASSUME TypeOK, LocalOnly,
         pc' \in [Threads -> Labels], call' \in [Threads -> Frame],
         \A u \in Threads : call'[u].data \in Version /\ call'[u].since \in Version
  PROVE  TypeOK'
BY DEF TypeOK, LocalOnly, cacheVars, Version

LEMMA GotoType ==
  ASSUME TypeOK, NEW t \in Threads, NEW l \in Labels, Goto(t, l),
         UNCHANGED call, LocalOnly
  PROVE  TypeOK'
<1>1. pc' \in [Threads -> Labels]
  BY DEF TypeOK, Goto
<1>2. QED
  BY <1>1, LocalType DEF TypeOK

LEMMA FinishType ==
  ASSUME TypeOK, NEW t \in Threads, NEW r \in Outcomes, Finish(t, r), LocalOnly
  PROVE  TypeOK'
<1>1. pc' \in [Threads -> Labels]
  BY DEF TypeOK, Goto, Finish, Labels
<1>2. call' \in [Threads -> Frame]
  <2> DEFINE frame == [call[t] EXCEPT !.outcome = r]
  <2>1. call' = [call EXCEPT ![t] = frame]
    BY DEF Finish
  <2>2. frame \in Frame
    <3>1. call[t] \in Frame
      BY DEF TypeOK
    <3>2. QED BY <3>1 DEF Frame
  <2> HIDE DEF frame
  <2>3. QED
    BY <2>1, <2>2 DEF TypeOK
<1>3. \A u \in Threads : call'[u].data = call[u].data /\ call'[u].since = call[u].since
  BY DEF TypeOK, Finish, Frame
<1>4. QED
  BY <1>1, <1>2, <1>3, LocalType DEF TypeOK

(* A store adds one entry, or keeps what is there, or drops the oldest.     *)
LEMMA LruAddProperties ==
  ASSUME lru \in Seq(KeyEntry), Len(lru) <= MaxCachedKeys, NEW e \in KeyEntry
  PROVE  /\ LruAdd(e) \in Seq(KeyEntry)
         /\ Len(LruAdd(e)) <= MaxCachedKeys
         /\ \/ LruAdd(e) = lru
            \/ /\ EntriesFor(e.kid) = {}
               /\ \E drop \in {0, 1} :
                    /\ drop = 1 => Len(lru) = MaxCachedKeys
                    /\ Len(LruAdd(e)) = Len(lru) - drop + 1
                    /\ \A i \in 1..Len(lru) - drop :
                         LruAdd(e)[i] = lru[i + drop]
                    /\ LruAdd(e)[Len(lru) - drop + 1] = e
<1> USE ClientAssumption
<1>1. CASE EntriesFor(e.kid) # {}
  BY <1>1 DEF LruAdd
<1>2. CASE EntriesFor(e.kid) = {} /\ Len(lru) < MaxCachedKeys
  <2>1. LruAdd(e) = Append(lru, e)
    BY <1>2 DEF LruAdd
  <2>2. QED
    BY <1>2, <2>1, AppendProperties
<1>3. CASE EntriesFor(e.kid) = {} /\ ~(Len(lru) < MaxCachedKeys)
  <2>1. LruAdd(e) = Append(Tail(lru), e)
    BY <1>3 DEF LruAdd
  <2>2. Len(lru) = MaxCachedKeys /\ lru # <<>>
    BY <1>3
  <2>3. /\ Tail(lru) \in Seq(KeyEntry)
        /\ Len(Tail(lru)) = Len(lru) - 1
        /\ \A i \in 1..Len(Tail(lru)) : Tail(lru)[i] = lru[i + 1]
    BY <2>2, HeadTailProperties
  <2>4. /\ LruAdd(e) \in Seq(KeyEntry)
        /\ Len(LruAdd(e)) = Len(lru) - 1 + 1
        /\ \A i \in 1..Len(lru) - 1 : LruAdd(e)[i] = lru[i + 1]
        /\ LruAdd(e)[Len(lru) - 1 + 1] = e
    BY <2>1, <2>3, AppendProperties
  <2>5. QED
    BY <1>3, <2>2, <2>4
<1>4. QED
  BY <1>1, <1>2, <1>3

LEMMA SentType == ASSUME TypeOK, NEW t \in Threads PROVE Sent(t) \in 0..3
<1>1. call[t].fetches \in 0..3
  BY DEF TypeOK, Frame
<1>2. QED BY <1>1 DEF Sent

LEMMA StepType == TypeOK /\ [Next]_vars => TypeOK'
<1> SUFFICES ASSUME TypeOK, [Next]_vars PROVE TypeOK'
  OBVIOUS
<1> USE LifespanAssumption, ClientAssumption
<1>0. /\ Horizon \in Nat
      /\ 0 \in Version
      /\ Len(published) \in Version
      /\ Version \subseteq Nat
  BY DEF Horizon, Version, TypeOK
<1>1. ASSUME NEW t \in Threads, CallWithRefresh(t) PROVE TypeOK'
  <2>1. PICK op \in Ops, kid \in Kids \cup {NoKid}, refresh \in BOOLEAN,
              l \in {"lookup", "check", "request"} : Begin(t, op, kid, refresh, l)
    BY <1>1 DEF CallWithRefresh, FirstStep, Ops
  <2>2. pc' \in [Threads -> Labels]
    BY <2>1 DEF Begin, Goto, TypeOK, Labels
  <2> DEFINE frame == [Blank EXCEPT !.op = op, !.kid = kid,
                         !.refresh = refresh, !.since = Len(published)]
  <2>3. frame \in Frame /\ frame.data = 0 /\ frame.since = Len(published)
    <3>1. frame \in Frame
      BY <1>0, BlankType DEF Frame
    <3>2. frame.data = 0 /\ frame.since = Len(published)
      BY DEF Blank, NoSet
    <3>3. QED BY <3>1, <3>2
  <2>4. call' = [call EXCEPT ![t] = frame]
    BY <2>1 DEF Begin
  <2> HIDE DEF frame
  <2>5. call' \in [Threads -> Frame]
    BY <2>3, <2>4 DEF TypeOK
  <2>6. \A u \in Threads :
          call'[u].data \in Version /\ call'[u].since \in Version
    BY <2>3, <2>4, <1>0 DEF TypeOK
  <2>7. QED
    BY <2>1, <2>2, <2>5, <2>6, LocalType DEF Begin
<1>2. ASSUME NEW t \in Threads, CallGetSigningKey(t) PROVE TypeOK'
  <2>1. PICK op \in Ops, kid \in Kids \cup {NoKid}, refresh \in BOOLEAN,
              l \in {"lookup", "check", "request"} : Begin(t, op, kid, refresh, l)
    BY <1>2 DEF CallGetSigningKey, FirstStep, Ops
  <2>2. pc' \in [Threads -> Labels]
    BY <2>1 DEF Begin, Goto, TypeOK, Labels
  <2> DEFINE frame == [Blank EXCEPT !.op = op, !.kid = kid,
                         !.refresh = refresh, !.since = Len(published)]
  <2>3. frame \in Frame /\ frame.data = 0 /\ frame.since = Len(published)
    <3>1. frame \in Frame
      BY <1>0, BlankType DEF Frame
    <3>2. frame.data = 0 /\ frame.since = Len(published)
      BY DEF Blank, NoSet
    <3>3. QED BY <3>1, <3>2
  <2>4. call' = [call EXCEPT ![t] = frame]
    BY <2>1 DEF Begin
  <2> HIDE DEF frame
  <2>5. call' \in [Threads -> Frame]
    BY <2>3, <2>4 DEF TypeOK
  <2>6. \A u \in Threads :
          call'[u].data \in Version /\ call'[u].since \in Version
    BY <2>3, <2>4, <1>0 DEF TypeOK
  <2>7. QED
    BY <2>1, <2>2, <2>5, <2>6, LocalType DEF Begin
<1>3. ASSUME NEW t \in Threads, LruHit(t) PROVE TypeOK'
  <2>1. PICK i \in 1..Len(lru) :
           /\ lru' = Append(SX!RemoveAt(lru, i), lru[i])
           /\ call' = [call EXCEPT ![t].data = lru[i].ver,
                                   ![t].outcome = "cached_key"]
    BY <1>3 DEF LruHit, EntriesFor
  <2>2. lru' \in Seq(KeyEntry) /\ Len(lru') = Len(lru)
    BY <2>1, MoveToEndProperties DEF TypeOK
  <2>3. \A j \in 1..Len(lru') : lru'[j].ver \in Version
    <3>0. lru \in Seq(KeyEntry)
      BY DEF TypeOK
    <3>a. \A j \in 1..Len(lru) :
            Append(SX!RemoveAt(lru, i), lru[i])[j]
              = lru[IF j = Len(lru) THEN i ELSE IF j < i THEN j ELSE j + 1]
      BY <3>0, MoveToEndProperties
    <3>1. \A j \in 1..Len(lru) :
            lru'[j] = lru[IF j = Len(lru) THEN i ELSE IF j < i THEN j ELSE j + 1]
      BY <2>1, <3>a
    <3>2. \A j \in 1..Len(lru) :
            (IF j = Len(lru) THEN i ELSE IF j < i THEN j ELSE j + 1)
              \in 1..Len(lru)
      BY DEF TypeOK
    <3>3. QED
      BY <2>2, <3>1, <3>2 DEF TypeOK
  <2>4. pc' \in [Threads -> Labels]
    BY <1>3 DEF LruHit, Goto, TypeOK, Labels
  <2> DEFINE frame == [call[t] EXCEPT !.data = lru[i].ver,
                                      !.outcome = "cached_key"]
  <2>5. call[t] \in Frame /\ call[t].since \in Version /\ lru[i].ver \in Version
    BY DEF TypeOK
  <2>6. frame \in Frame /\ frame.data \in Version /\ frame.since \in Version
    BY <1>0, <2>5 DEF Frame, Outcomes
  <2>7. call' = [call EXCEPT ![t] = frame]
    BY <2>1
  <2> HIDE DEF frame
  <2>8. call' \in [Threads -> Frame]
    BY <2>6, <2>7 DEF TypeOK
  <2>9. \A u \in Threads :
          call'[u].data \in Version /\ call'[u].since \in Version
    BY <2>6, <2>7 DEF TypeOK
  <2>10. QED
    BY <1>3, <2>2, <2>3, <2>4, <2>8, <2>9 DEF LruHit, TypeOK, Version, cacheVars
<1>4. ASSUME NEW t \in Threads, LruStore(t) PROVE TypeOK'
  <2>1. LruAdd([kid |-> call[t].kid, ver |-> call[t].data]) = lru'
    BY <1>4 DEF LruStore
  <2>2. [kid |-> call[t].kid, ver |-> call[t].data] \in KeyEntry
    BY DEF TypeOK, Frame, KeyEntry
  <2>3. lru' \in Seq(KeyEntry) /\ Len(lru') <= MaxCachedKeys
    BY <2>1, <2>2, LruAddProperties DEF TypeOK
  <2>4. call[t].data \in Version
    BY DEF TypeOK
  <2>5. \A i \in 1..Len(lru') : lru'[i].ver \in Version
    <3> DEFINE e == [kid |-> call[t].kid, ver |-> call[t].data]
    <3>1. e \in KeyEntry /\ e.ver \in Version
      BY <2>2, <2>4
    <3> HIDE DEF e
    <3>2. CASE LruAdd(e) = lru
      BY <2>1, <3>2 DEF TypeOK, e
    <3>3. ASSUME NEW drop \in {0, 1},
                 Len(LruAdd(e)) = Len(lru) - drop + 1,
                 \A i \in 1..Len(lru) - drop : LruAdd(e)[i] = lru[i + drop],
                 LruAdd(e)[Len(lru) - drop + 1] = e
          PROVE  \A i \in 1..Len(LruAdd(e)) : LruAdd(e)[i].ver \in Version
      BY <3>1, <3>3 DEF TypeOK
    <3>4. lru \in Seq(KeyEntry) /\ Len(lru) <= MaxCachedKeys
      BY DEF TypeOK
    <3>5. LruAdd(e) = lru'
      BY <2>1 DEF e
    <3>6. QED
      BY <3>1, <3>2, <3>3, <3>4, <3>5, LruAddProperties
  <2>6. pc' \in [Threads -> Labels]
    BY <1>4 DEF LruStore, Goto, TypeOK, Labels
  <2>7. QED
    BY <1>4, <2>3, <2>5, <2>6 DEF LruStore, TypeOK, Version, cacheVars
<1>5. ASSUME NEW t \in Threads, LruMiss(t) PROVE TypeOK'
  BY <1>5, GotoType DEF LruMiss, Labels, FirstStep
<1>6. ASSUME NEW t \in Threads, CacheCheck(t) PROVE TypeOK'
  BY <1>6, GotoType DEF CacheCheck, Labels, FirstStep
<1>7. ASSUME NEW t \in Threads, CacheRecheck(t) PROVE TypeOK'
  BY <1>7, GotoType DEF CacheRecheck, Labels, FirstStep
<1>8. ASSUME NEW t \in Threads, CacheCompare(t) PROVE TypeOK'
  BY <1>8, GotoType DEF CacheCompare, Labels, FirstStep
<1>9. ASSUME NEW t \in Threads, DeliverFetched(t) PROVE TypeOK'
  BY <1>9, GotoType DEF DeliverFetched, Labels, FirstStep
<1>10. ASSUME NEW t \in Threads, CacheTake(t) PROVE TypeOK'
  <2> DEFINE frame == [call[t] EXCEPT !.data = jwkSet]
  <2>1. pc' \in [Threads -> Labels]
    BY <1>10 DEF CacheTake, TypeOK, Goto, Labels
  <2>2. call[t] \in Frame /\ call[t].data \in Version /\ call[t].since \in Version
    BY DEF TypeOK
  <2>3. frame \in Frame /\ frame.data \in Version /\ frame.since \in Version
    BY <1>0, <2>2, BlankType, SentType DEF Frame, Outcomes, NoSet, Blank, TypeOK
  <2>4. call' = [call EXCEPT ![t] = frame]
    BY <1>10 DEF CacheTake
  <2> HIDE DEF frame
  <2>5. call' \in [Threads -> Frame]
    BY <2>3, <2>4 DEF TypeOK
  <2>6. \A u \in Threads :
          call'[u].data \in Version /\ call'[u].since \in Version
    BY <2>3, <2>4 DEF TypeOK
  <2>7. QED
    BY <1>10, <2>1, <2>5, <2>6, LocalType DEF CacheTake
<1>11. ASSUME NEW t \in Threads, Answer(t) PROVE TypeOK'
  <2> DEFINE frame == [call[t] EXCEPT
                  !.data = IF Body(Len(published)).shape = "null"
                           THEN NoSet ELSE Len(published),
                  !.fetches = Sent(t)]
  <2>1. pc' \in [Threads -> Labels]
    BY <1>11 DEF Answer, TypeOK, Goto, Labels, AfterExchange
  <2>2. call[t] \in Frame /\ call[t].data \in Version /\ call[t].since \in Version
    BY DEF TypeOK
  <2>3. frame \in Frame /\ frame.data \in Version /\ frame.since \in Version
    BY <1>0, <2>2, BlankType, SentType DEF Frame, Outcomes, NoSet, Blank, TypeOK
  <2>4. call' = [call EXCEPT ![t] = frame]
    BY <1>11 DEF Answer
  <2> HIDE DEF frame
  <2>5. call' \in [Threads -> Frame]
    BY <2>3, <2>4 DEF TypeOK
  <2>6. \A u \in Threads :
          call'[u].data \in Version /\ call'[u].since \in Version
    BY <2>3, <2>4 DEF TypeOK
  <2>7. QED
    BY <1>11, <2>1, <2>5, <2>6, LocalType DEF Answer
<1>12. ASSUME NEW t \in Threads, ReturnMatch(t) PROVE TypeOK'
  <2> DEFINE frame == [call[t] EXCEPT !.outcome = "ok"]
  <2>1. pc' \in [Threads -> Labels]
    BY <1>12 DEF ReturnMatch, TypeOK, Goto, Labels
  <2>2. call[t] \in Frame /\ call[t].data \in Version /\ call[t].since \in Version
    BY DEF TypeOK
  <2>3. frame \in Frame /\ frame.data \in Version /\ frame.since \in Version
    BY <1>0, <2>2, BlankType, SentType DEF Frame, Outcomes, NoSet, Blank, TypeOK
  <2>4. call' = [call EXCEPT ![t] = frame]
    BY <1>12 DEF ReturnMatch
  <2> HIDE DEF frame
  <2>5. call' \in [Threads -> Frame]
    BY <2>3, <2>4 DEF TypeOK
  <2>6. \A u \in Threads :
          call'[u].data \in Version /\ call'[u].since \in Version
    BY <2>3, <2>4 DEF TypeOK
  <2>7. QED
    BY <1>12, <2>1, <2>5, <2>6, LocalType DEF ReturnMatch
<1>13. ASSUME NEW t \in Threads, Retry(t) PROVE TypeOK'
  <2> DEFINE frame == [call[t] EXCEPT !.refresh = TRUE]
  <2>1. pc' \in [Threads -> Labels]
    BY <1>13 DEF Retry, TypeOK, Goto, Labels, FirstStep
  <2>2. call[t] \in Frame /\ call[t].data \in Version /\ call[t].since \in Version
    BY DEF TypeOK
  <2>3. frame \in Frame /\ frame.data \in Version /\ frame.since \in Version
    BY <1>0, <2>2, BlankType, SentType DEF Frame, Outcomes, NoSet, Blank, TypeOK
  <2>4. call' = [call EXCEPT ![t] = frame]
    BY <1>13 DEF Retry
  <2> HIDE DEF frame
  <2>5. call' \in [Threads -> Frame]
    BY <2>3, <2>4 DEF TypeOK
  <2>6. \A u \in Threads :
          call'[u].data \in Version /\ call'[u].since \in Version
    BY <2>3, <2>4 DEF TypeOK
  <2>7. QED
    BY <1>13, <2>1, <2>5, <2>6, LocalType DEF Retry
<1>14. ASSUME NEW t \in Threads, Return(t) PROVE TypeOK'
  <2> DEFINE frame == Blank
  <2>1. pc' \in [Threads -> Labels]
    BY <1>14 DEF Return, TypeOK, Goto, Labels
  <2>2. call[t] \in Frame /\ call[t].data \in Version /\ call[t].since \in Version
    BY DEF TypeOK
  <2>3. frame \in Frame /\ frame.data \in Version /\ frame.since \in Version
    BY <1>0, <2>2, BlankType, SentType DEF Frame, Outcomes, NoSet, Blank, TypeOK
  <2>4. call' = [call EXCEPT ![t] = frame]
    BY <1>14 DEF Return
  <2> HIDE DEF frame
  <2>5. call' \in [Threads -> Frame]
    BY <2>3, <2>4 DEF TypeOK
  <2>6. \A u \in Threads :
          call'[u].data \in Version /\ call'[u].since \in Version
    BY <2>3, <2>4 DEF TypeOK
  <2>7. QED
    BY <1>14, <2>1, <2>5, <2>6, LocalType DEF Return
<1>15. ASSUME NEW t \in Threads, FailExchange(t) PROVE TypeOK'
  <2>0. PICK failure \in Failures :
           /\ call' = [call EXCEPT ![t].data = NoSet,
                                   ![t].failure = failure,
                                   ![t].fetches = Sent(t)]
           /\ Goto(t, AfterExchange)
    BY <1>15 DEF FailExchange
  <2> DEFINE frame == [call[t] EXCEPT !.data = NoSet, !.failure = failure,
                                   !.fetches = Sent(t)]
  <2>1. pc' \in [Threads -> Labels]
    BY <2>0 DEF TypeOK, Goto, Labels, AfterExchange
  <2>2. call[t] \in Frame /\ call[t].data \in Version /\ call[t].since \in Version
    BY DEF TypeOK
  <2>3. frame \in Frame /\ frame.data \in Version /\ frame.since \in Version
    BY <1>0, <2>2, BlankType, SentType DEF Frame, Outcomes, NoSet, Blank, TypeOK
  <2>4. call' = [call EXCEPT ![t] = frame]
    BY <2>0
  <2> HIDE DEF frame
  <2>5. call' \in [Threads -> Frame]
    BY <2>3, <2>4 DEF TypeOK
  <2>6. \A u \in Threads :
          call'[u].data \in Version /\ call'[u].since \in Version
    BY <2>3, <2>4 DEF TypeOK
  <2>7. QED
    BY <1>15, <2>1, <2>5, <2>6, LocalType DEF FailExchange
<1>16. ASSUME NEW t \in Threads, StoreSet(t) PROVE TypeOK'
  BY <1>16, <1>0 DEF StoreSet, TypeOK, Frame, Version, Goto, NoSet, Labels, PutSet, PutStamp
<1>17. ASSUME NEW t \in Threads, StoreStamp(t) PROVE TypeOK'
  BY <1>17, <1>0 DEF StoreStamp, TypeOK, Frame, Version, Goto, NoSet, Labels, PutSet, PutStamp
<1>18. ASSUME NEW t \in Threads, RaiseFetchError(t) PROVE TypeOK'
  <2>1. call[t].failure \in Outcomes
    BY <1>18 DEF RaiseFetchError, TypeOK, Frame, Outcomes, Raises
  <2>2. QED
    BY <1>18, <2>1, FinishType DEF RaiseFetchError
<1>19. ASSUME NEW t \in Threads, RaiseNotObject(t) PROVE TypeOK'
  BY <1>19, FinishType DEF RaiseNotObject, Outcomes, Raises
<1>20. ASSUME NEW t \in Threads, RaiseSetError(t) PROVE TypeOK'
  BY <1>20, FinishType DEF RaiseSetError, Outcomes, Raises
<1>21. ASSUME NEW t \in Threads, ReturnSet(t) PROVE TypeOK'
  BY <1>21, FinishType DEF ReturnSet, Outcomes, Raises
<1>22. ASSUME NEW t \in Threads, RaiseNoSigningKeys(t) PROVE TypeOK'
  BY <1>22, FinishType DEF RaiseNoSigningKeys, Outcomes, Raises
<1>23. ASSUME NEW t \in Threads, ReturnKeys(t) PROVE TypeOK'
  BY <1>23, FinishType DEF ReturnKeys, Outcomes, Raises
<1>24. ASSUME NEW t \in Threads, RaiseNoMatch(t) PROVE TypeOK'
  BY <1>24, FinishType DEF RaiseNoMatch, Outcomes, Raises
<1>25. ASSUME Publish PROVE TypeOK'
  BY <1>25, <1>0 DEF Publish, TypeOK, Version, cacheVars
<1>26. ASSUME Tick PROVE TypeOK'
  BY <1>26, <1>0 DEF Tick, CacheTick, Older, TypeOK, Version, Horizon
<1>27. ASSUME UNCHANGED vars PROVE TypeOK'
  BY <1>27 DEF vars, cacheVars, TypeOK, Version
<1> QED
  BY <1>1, <1>2, <1>3, <1>4, <1>5, <1>6, <1>7, <1>8, <1>9, <1>10, <1>11, <1>12, <1>13, <1>14, <1>15, <1>16, <1>17, <1>18, <1>19, <1>20, <1>21, <1>22, <1>23, <1>24, <1>25, <1>26, <1>27 DEF Next, Running

(* Every reachable state is well typed, and the key cache never outgrows    *)
(* max_cached_keys.                                                         *)
THEOREM TypeCorrect == Spec => []TypeOK
BY InitType, StepType, PTL DEF Spec

-----------------------------------------------------------------------------
(* Where a call is, and what it has behind it.                             *)

LEMMA StepCallStates == TypeOK /\ CallStates /\ [Next]_vars => CallStates'
<1> SUFFICES ASSUME TypeOK, CallStates, [Next]_vars, NEW u \in Threads
             PROVE  CallState(u)'
  BY DEF CallStates
<1>0. /\ pc \in [Threads -> Labels]
      /\ call \in [Threads -> Frame]
      /\ CallState(u)
  BY DEF TypeOK, CallStates
<1>1. ASSUME NEW t \in Threads, CallWithRefresh(t) PROVE CallState(u)'
  BY <1>0, <1>1 DEF CallWithRefresh, Goto, Frame, CallState, Begin, FirstStep, Blank
<1>2. ASSUME NEW t \in Threads, CallGetSigningKey(t) PROVE CallState(u)'
  BY <1>0, <1>2 DEF CallGetSigningKey, Goto, Frame, CallState, Begin, FirstStep, Blank
<1>3. ASSUME NEW t \in Threads, LruHit(t) PROVE CallState(u)'
  BY <1>0, <1>3 DEF LruHit, Goto, Frame, CallState
<1>4. ASSUME NEW t \in Threads, LruMiss(t) PROVE CallState(u)'
  BY <1>0, <1>4 DEF LruMiss, Goto, Frame, CallState, FirstStep
<1>5. ASSUME NEW t \in Threads, LruStore(t) PROVE CallState(u)'
  BY <1>0, <1>5 DEF LruStore, Goto, Frame, CallState
<1>6. ASSUME NEW t \in Threads, CacheCheck(t) PROVE CallState(u)'
  BY <1>0, <1>6 DEF CacheCheck, Goto, Frame, CallState
<1>7. ASSUME NEW t \in Threads, CacheRecheck(t) PROVE CallState(u)'
  BY <1>0, <1>7 DEF CacheRecheck, Goto, Frame, CallState
<1>8. ASSUME NEW t \in Threads, CacheCompare(t) PROVE CallState(u)'
  BY <1>0, <1>8 DEF CacheCompare, Goto, Frame, CallState
<1>9. ASSUME NEW t \in Threads, CacheTake(t) PROVE CallState(u)'
  BY <1>0, <1>9 DEF CacheTake, Goto, Frame, CallState
<1>10. ASSUME NEW t \in Threads, Answer(t) PROVE CallState(u)'
  <2>1. PICK d : call' = [call EXCEPT ![t].data = d, ![t].fetches = Sent(t)]
    BY <1>10 DEF Answer
  <2>2. /\ pc[t] = "request"
        /\ pc' = [pc EXCEPT ![t] = AfterExchange]
        /\ AfterExchange \in {"put", "fetched"}
    BY <1>10 DEF Answer, Goto, AfterExchange
  <2> DEFINE frame == [call[t] EXCEPT !.data = d, !.fetches = Sent(t)]
  <2>3. call' = [call EXCEPT ![t] = frame]
    BY <2>1
  <2>4. CASE u = t
    <3>1. /\ call[t].fetches \in 0..3 /\ Sent(t) > 0
          /\ Sent(t) <= call[t].fetches + 1
      BY <1>0 DEF Frame, Sent
    <3>2. /\ frame.fetches = Sent(t) /\ frame.refresh = call[t].refresh
          /\ frame.op = call[t].op /\ frame.failure = call[t].failure
          /\ frame.outcome = call[t].outcome
      BY <1>0 DEF Frame
    <3> HIDE DEF frame
    <3>3. call'[u] = frame /\ pc'[u] = AfterExchange
      BY <1>0, <2>2, <2>3, <2>4
    <3>4. /\ call[t].fetches <= IF call[t].op = "get_signing_key" /\ call[t].refresh
                                 THEN 1 ELSE 0
          /\ call[t].failure = "none" /\ call[t].outcome = "none"
      BY <1>0, <2>2, <2>4 DEF CallState
    <3>5. pc'[u] \in {"put", "fetched"}
      BY <2>2, <3>3
    <3>6. /\ call'[u].fetches \in 1..3 /\ call'[u].outcome = "none"
          /\ call'[u].fetches <=
               1 + IF call'[u].op = "get_signing_key" /\ call'[u].refresh
                   THEN 1 ELSE 0
      <4>1. Sent(t) \in 1..3
        BY <3>1 DEF Sent
      <4>2. QED
        BY <3>1, <3>2, <3>3, <3>4, <4>1
    <3>7. QED
      BY <3>5, <3>6 DEF CallState
  <2>5. CASE u # t
    <3>1. call'[u] = call[u] /\ pc'[u] = pc[u]
      BY <1>0, <2>2, <2>3, <2>5
    <3>2. QED
      BY <1>0, <3>1 DEF CallState
  <2>6. QED
    BY <2>4, <2>5
<1>11. ASSUME NEW t \in Threads, FailExchange(t) PROVE CallState(u)'
  BY <1>0, <1>11 DEF FailExchange, Goto, Frame, CallState, AfterExchange, Sent, Failures
<1>12. ASSUME NEW t \in Threads, StoreSet(t) PROVE CallState(u)'
  BY <1>0, <1>12 DEF StoreSet, Goto, Frame, CallState, PutSet
<1>13. ASSUME NEW t \in Threads, StoreStamp(t) PROVE CallState(u)'
  BY <1>0, <1>13 DEF StoreStamp, Goto, Frame, CallState, PutStamp
<1>14. ASSUME NEW t \in Threads, RaiseFetchError(t) PROVE CallState(u)'
  BY <1>0, <1>14 DEF RaiseFetchError, Goto, Frame, CallState, Finish
<1>15. ASSUME NEW t \in Threads, DeliverFetched(t) PROVE CallState(u)'
  BY <1>0, <1>15 DEF DeliverFetched, Goto, Frame, CallState
<1>16. ASSUME NEW t \in Threads, RaiseNotObject(t) PROVE CallState(u)'
  BY <1>0, <1>16 DEF RaiseNotObject, Goto, Frame, CallState, Finish
<1>17. ASSUME NEW t \in Threads, RaiseSetError(t) PROVE CallState(u)'
  BY <1>0, <1>17 DEF RaiseSetError, Goto, Frame, CallState, Finish
<1>18. ASSUME NEW t \in Threads, ReturnSet(t) PROVE CallState(u)'
  BY <1>0, <1>18 DEF ReturnSet, Goto, Frame, CallState, Finish
<1>19. ASSUME NEW t \in Threads, RaiseNoSigningKeys(t) PROVE CallState(u)'
  BY <1>0, <1>19 DEF RaiseNoSigningKeys, Goto, Frame, CallState, Finish
<1>20. ASSUME NEW t \in Threads, ReturnKeys(t) PROVE CallState(u)'
  BY <1>0, <1>20 DEF ReturnKeys, Goto, Frame, CallState, Finish
<1>21. ASSUME NEW t \in Threads, ReturnMatch(t) PROVE CallState(u)'
  BY <1>0, <1>21 DEF ReturnMatch, Goto, Frame, CallState
<1>22. ASSUME NEW t \in Threads, Retry(t) PROVE CallState(u)'
  BY <1>0, <1>22 DEF Retry, Goto, Frame, CallState, FirstStep
<1>23. ASSUME NEW t \in Threads, RaiseNoMatch(t) PROVE CallState(u)'
  BY <1>0, <1>23 DEF RaiseNoMatch, Goto, Frame, CallState, Finish
<1>24. ASSUME NEW t \in Threads, Return(t) PROVE CallState(u)'
  BY <1>0, <1>24 DEF Return, Goto, Frame, CallState, Blank
<1>25. ASSUME Publish PROVE CallState(u)'
  BY <1>0, <1>25 DEF Publish, CallState
<1>26. ASSUME Tick PROVE CallState(u)'
  BY <1>0, <1>26 DEF Tick, CallState
<1>27. ASSUME UNCHANGED vars PROVE CallState(u)'
  BY <1>0, <1>27 DEF vars, CallState
<1> QED
  BY <1>1, <1>2, <1>3, <1>4, <1>5, <1>6, <1>7, <1>8, <1>9, <1>10, <1>11, <1>12, <1>13, <1>14, <1>15, <1>16, <1>17, <1>18, <1>19, <1>20, <1>21, <1>22, <1>23, <1>24, <1>25, <1>26, <1>27 DEF Next, Running

LEMMA InitCallStates == Init => CallStates
BY DEF Init, CallStates, CallState, Blank

(* A call makes at most two requests.                                       *)
THEOREM FetchBudgetHolds == Spec => []FetchBudget
<1>1. TypeOK /\ CallStates => FetchBudget
  <2> SUFFICES ASSUME TypeOK, CallStates, NEW t \in Threads
               PROVE  call[t].fetches
                        <= IF call[t].op = "get_signing_key" THEN 2 ELSE 1
    BY DEF FetchBudget
  <2>1. pc[t] \in Labels /\ call[t] \in Frame /\ CallState(t)
    BY DEF TypeOK, CallStates
  <2>2. QED
    BY <2>1 DEF CallState, Frame, Labels
<1>2. QED
  BY TypeCorrect, InitCallStates, StepCallStates, <1>1, PTL DEF Spec

-----------------------------------------------------------------------------
(* The endpoint's history only grows.                                       *)

LEMMA PublishedGrows ==
  ASSUME TypeOK, [Next]_vars
  PROVE  /\ Len(published) \in Nat
         /\ Len(published') \in Nat
         /\ Len(published) <= Len(published')
         /\ \A v \in 1..Len(published) : published'[v] = published[v]
<1>1. CASE Publish
  BY <1>1 DEF Publish, TypeOK
<1>2. ASSUME NEW t \in Threads, CallWithRefresh(t) \/ CallGetSigningKey(t)
      PROVE  UNCHANGED published
  BY <1>2 DEF CallWithRefresh, CallGetSigningKey, Begin, LocalOnly
<1>3. ASSUME NEW t \in Threads, Running(t)
      PROVE  UNCHANGED published
  BY <1>3 DEF Running, LocalOnly, LruHit, LruMiss, LruStore, CacheCheck, CacheRecheck, CacheCompare, CacheTake, Answer, FailExchange, StoreSet, StoreStamp, RaiseFetchError, DeliverFetched, RaiseNotObject, RaiseSetError, ReturnSet, RaiseNoSigningKeys, ReturnKeys, ReturnMatch, Retry, RaiseNoMatch, Return
<1>4. CASE Tick \/ UNCHANGED vars
  BY <1>4 DEF Tick, vars, TypeOK
<1>5. QED
  BY <1>1, <1>2, <1>3, <1>4 DEF Next, TypeOK

LEMMA HoldsKeyStays ==
  ASSUME TypeOK, [Next]_vars, NEW v, NEW kid, HoldsKey(v, kid)
  PROVE  HoldsKey(v, kid)'
BY PublishedGrows DEF HoldsKey, Usable, KeysOf, Body

-----------------------------------------------------------------------------
(* Provenance.                                                              *)

LruHolds == \A i \in 1..Len(lru) : HoldsKey(lru[i].ver, lru[i].kid)

KeyHanded(t) ==
    /\ call[t].op = "get_signing_key"
    /\ call[t].outcome \in {"ok", "cached_key"}
    => HoldsKey(call[t].data, call[t].kid)

LEMMA StepKeyHanded ==
  ASSUME TypeOK, CallStates, Provenance, [Next]_vars, NEW u \in Threads
  PROVE  KeyHanded(u)'
<1>0. /\ pc \in [Threads -> Labels]
      /\ call \in [Threads -> Frame]
      /\ KeyHanded(u)
      /\ CallState(u)
      /\ \A v, kid : HoldsKey(v, kid) => HoldsKey(v, kid)'
  BY HoldsKeyStays DEF TypeOK, CallStates, Provenance, KeyHanded
<1>1. ASSUME NEW t \in Threads, CallWithRefresh(t) PROVE KeyHanded(u)'
  BY <1>0, <1>1
  DEF CallWithRefresh, Goto, LocalOnly, Frame, Begin, FirstStep, Blank, KeyHanded, CallState
<1>2. ASSUME NEW t \in Threads, CallGetSigningKey(t) PROVE KeyHanded(u)'
  BY <1>0, <1>2
  DEF CallGetSigningKey, Goto, LocalOnly, Frame, Begin, FirstStep, Blank, KeyHanded, CallState
<1>3. ASSUME NEW t \in Threads, LruHit(t) PROVE KeyHanded(u)'
  BY <1>0, <1>3 DEF LruHit, EntriesFor, Goto, Frame, KeyHanded, Provenance
<1>4. ASSUME NEW t \in Threads, LruMiss(t) PROVE KeyHanded(u)'
  BY <1>0, <1>4
  DEF LruMiss, Goto, LocalOnly, Frame, FirstStep, KeyHanded, CallState
<1>5. ASSUME NEW t \in Threads, LruStore(t) PROVE KeyHanded(u)'
  BY <1>0, <1>5
  DEF LruStore, Goto, LocalOnly, Frame, KeyHanded, CallState
<1>6. ASSUME NEW t \in Threads, CacheCheck(t) PROVE KeyHanded(u)'
  BY <1>0, <1>6
  DEF CacheCheck, Goto, LocalOnly, Frame, KeyHanded, CallState
<1>7. ASSUME NEW t \in Threads, CacheRecheck(t) PROVE KeyHanded(u)'
  BY <1>0, <1>7
  DEF CacheRecheck, Goto, LocalOnly, Frame, KeyHanded, CallState
<1>8. ASSUME NEW t \in Threads, CacheCompare(t) PROVE KeyHanded(u)'
  BY <1>0, <1>8
  DEF CacheCompare, Goto, LocalOnly, Frame, KeyHanded, CallState
<1>9. ASSUME NEW t \in Threads, CacheTake(t) PROVE KeyHanded(u)'
  BY <1>0, <1>9
  DEF CacheTake, Goto, LocalOnly, Frame, KeyHanded, CallState
<1>10. ASSUME NEW t \in Threads, Answer(t) PROVE KeyHanded(u)'
  BY <1>0, <1>10
  DEF Answer, Goto, LocalOnly, Frame, AfterExchange, KeyHanded, CallState
<1>11. ASSUME NEW t \in Threads, FailExchange(t) PROVE KeyHanded(u)'
  BY <1>0, <1>11
  DEF FailExchange, Goto, LocalOnly, Frame, AfterExchange, KeyHanded, CallState
<1>12. ASSUME NEW t \in Threads, StoreSet(t) PROVE KeyHanded(u)'
  BY <1>0, <1>12
  DEF StoreSet, Goto, LocalOnly, Frame, PutSet, KeyHanded, CallState
<1>13. ASSUME NEW t \in Threads, StoreStamp(t) PROVE KeyHanded(u)'
  BY <1>0, <1>13
  DEF StoreStamp, Goto, LocalOnly, Frame, PutStamp, KeyHanded, CallState
<1>14. ASSUME NEW t \in Threads, RaiseFetchError(t) PROVE KeyHanded(u)'
  <2>1. call[t].failure \notin {"ok", "cached_key"}
    BY <1>0 DEF Frame, Failures
  <2>2. QED
    BY <1>0, <2>1, <1>14 DEF RaiseFetchError, Goto, Frame, Finish, KeyHanded
<1>15. ASSUME NEW t \in Threads, DeliverFetched(t) PROVE KeyHanded(u)'
  BY <1>0, <1>15
  DEF DeliverFetched, Goto, LocalOnly, Frame, KeyHanded, CallState
<1>16. ASSUME NEW t \in Threads, RaiseNotObject(t) PROVE KeyHanded(u)'
  BY <1>0, <1>16
  DEF RaiseNotObject, Goto, LocalOnly, Frame, Finish, KeyHanded, CallState
<1>17. ASSUME NEW t \in Threads, RaiseSetError(t) PROVE KeyHanded(u)'
  BY <1>0, <1>17
  DEF RaiseSetError, Goto, LocalOnly, Frame, Finish, KeyHanded, CallState
<1>18. ASSUME NEW t \in Threads, ReturnSet(t) PROVE KeyHanded(u)'
  BY <1>0, <1>18
  DEF ReturnSet, Goto, LocalOnly, Frame, Finish, KeyHanded, CallState
<1>19. ASSUME NEW t \in Threads, RaiseNoSigningKeys(t) PROVE KeyHanded(u)'
  BY <1>0, <1>19
  DEF RaiseNoSigningKeys, Goto, LocalOnly, Frame, Finish, KeyHanded, CallState
<1>20. ASSUME NEW t \in Threads, ReturnKeys(t) PROVE KeyHanded(u)'
  BY <1>0, <1>20
  DEF ReturnKeys, Goto, LocalOnly, Frame, Finish, KeyHanded, CallState
<1>21. ASSUME NEW t \in Threads, ReturnMatch(t) PROVE KeyHanded(u)'
  <2>1. HoldsKey(call[t].data, call[t].kid)
    BY <1>21 DEF ReturnMatch, HasKeys, HasSet, HasObject, Matches, HoldsKey,
             TypeOK, Version, NoSet
  <2>2. QED
    BY <1>0, <2>1, <1>21 DEF ReturnMatch, Goto, Frame, KeyHanded
<1>22. ASSUME NEW t \in Threads, Retry(t) PROVE KeyHanded(u)'
  BY <1>0, <1>22
  DEF Retry, Goto, LocalOnly, Frame, FirstStep, KeyHanded, CallState
<1>23. ASSUME NEW t \in Threads, RaiseNoMatch(t) PROVE KeyHanded(u)'
  BY <1>0, <1>23
  DEF RaiseNoMatch, Goto, LocalOnly, Frame, Finish, KeyHanded, CallState
<1>24. ASSUME NEW t \in Threads, Return(t) PROVE KeyHanded(u)'
  BY <1>0, <1>24
  DEF Return, Goto, LocalOnly, Frame, Blank, KeyHanded, CallState
<1>25. ASSUME Publish PROVE KeyHanded(u)'
  BY <1>0, <1>25 DEF Publish, KeyHanded, CallState
<1>26. ASSUME Tick PROVE KeyHanded(u)'
  BY <1>0, <1>26 DEF Tick, KeyHanded, CallState
<1>27. ASSUME UNCHANGED vars PROVE KeyHanded(u)'
  BY <1>0, <1>27 DEF vars, KeyHanded, CallState
<1> QED
  BY <1>1, <1>2, <1>3, <1>4, <1>5, <1>6, <1>7, <1>8, <1>9, <1>10, <1>11, <1>12, <1>13, <1>14, <1>15, <1>16, <1>17, <1>18, <1>19, <1>20, <1>21, <1>22, <1>23, <1>24, <1>25, <1>26, <1>27 DEF Next, Running

LEMMA LruSteps ==
  ASSUME [Next]_vars
  PROVE  \/ lru' = lru
         \/ \E t \in Threads : LruHit(t) \/ LruStore(t)
BY DEF Next, Running, vars, LocalOnly, Begin, Publish, Tick, CallWithRefresh, CallGetSigningKey, LruMiss, CacheCheck, CacheRecheck, CacheCompare, CacheTake, Answer, FailExchange, StoreSet, StoreStamp, RaiseFetchError, DeliverFetched, RaiseNotObject, RaiseSetError, ReturnSet, RaiseNoSigningKeys, ReturnKeys, ReturnMatch, Retry, RaiseNoMatch, Return

LEMMA StepLruHolds ==
  ASSUME TypeOK, CallStates, Provenance, [Next]_vars
  PROVE  LruHolds'
<1>0. /\ LruHolds
      /\ lru \in Seq(KeyEntry)
      /\ Len(lru) <= MaxCachedKeys
      /\ \A v, kid : HoldsKey(v, kid) => HoldsKey(v, kid)'
  BY HoldsKeyStays DEF TypeOK, Provenance, LruHolds
<1>1. CASE lru' = lru
  BY <1>0, <1>1 DEF LruHolds
<1>2. ASSUME NEW t \in Threads, LruHit(t) PROVE LruHolds'
  <2>1. PICK i \in 1..Len(lru) : lru' = Append(SX!RemoveAt(lru, i), lru[i])
    BY <1>2 DEF LruHit, EntriesFor
  <2> DEFINE from(j) == IF j = Len(lru) THEN i ELSE IF j < i THEN j ELSE j + 1
  <2>2. /\ Len(lru') = Len(lru)
        /\ \A j \in 1..Len(lru) : lru'[j] = lru[from(j)]
    BY <1>0, <2>1, MoveToEndProperties
  <2>3. \A j \in 1..Len(lru) : from(j) \in 1..Len(lru)
    BY <1>0
  <2> HIDE DEF from
  <2>4. QED
    BY <1>0, <2>2, <2>3 DEF LruHolds
<1>3. ASSUME NEW t \in Threads, LruStore(t) PROVE LruHolds'
  <2> DEFINE e == [kid |-> call[t].kid, ver |-> call[t].data]
  <2>1. lru' = LruAdd(e)
    BY <1>3 DEF LruStore
  <2>2. e \in KeyEntry /\ HoldsKey(e.ver, e.kid)
    BY <1>3 DEF LruStore, CallStates, CallState, Provenance, TypeOK, Frame,
                KeyEntry
  <2> HIDE DEF e
  <2>3. CASE lru' = lru
    BY <1>0, <2>3 DEF LruHolds
  <2>4. ASSUME NEW drop \in {0, 1},
               Len(lru') = Len(lru) - drop + 1,
               \A i \in 1..Len(lru) - drop : lru'[i] = lru[i + drop],
               lru'[Len(lru) - drop + 1] = e
        PROVE  LruHolds'
    <3> SUFFICES ASSUME NEW i \in 1..Len(lru')
                 PROVE  HoldsKey(lru[i].ver, lru[i].kid)'
      BY DEF LruHolds
    <3>1. CASE i \in 1..Len(lru) - drop
      <4>1. lru'[i] = lru[i + drop] /\ i + drop \in 1..Len(lru)
        BY <2>4, <3>1
      <4>2. QED
        BY <1>0, <4>1 DEF LruHolds
    <3>2. CASE i = Len(lru) - drop + 1
      BY <1>0, <2>2, <2>4, <3>2
    <3>3. QED
      BY <2>4, <3>1, <3>2
  <2>5. QED
    BY <1>0, <2>1, <2>2, <2>3, <2>4, LruAddProperties
<1>4. QED
  BY <1>1, <1>2, <1>3, LruSteps

(* A key handed out, or kept in the key cache, was published under its kid. *)
THEOREM ProvenanceHolds == Spec => []Provenance
<1>1. Init => Provenance
  BY DEF Init, Provenance, Blank
<1>2. TypeOK /\ CallStates /\ Provenance /\ [Next]_vars => Provenance'
  BY StepKeyHanded, StepLruHolds DEF Provenance, KeyHanded, LruHolds
<1>3. QED
  BY TypeCorrect, InitCallStates, StepCallStates, <1>1, <1>2, PTL DEF Spec

-----------------------------------------------------------------------------
(* What a call reports about the endpoint.                                  *)

HeldFresh(t) ==
    Fetched(t) => call[t].data = NoSet \/ call[t].since <= call[t].data

LEMMA StepFetchedDuringCall ==
  ASSUME TypeOK, CallStates, FetchedDuringCall, [Next]_vars
  PROVE  FetchedDuringCall'
<1> SUFFICES ASSUME NEW u \in Threads PROVE HeldFresh(u)'
  BY DEF FetchedDuringCall, HeldFresh
<1>0. /\ pc \in [Threads -> Labels]
      /\ call \in [Threads -> Frame]
      /\ CallState(u)
      /\ HeldFresh(u)
      /\ call[u].data \in Version /\ call[u].since \in Version
      /\ Len(published) \in Nat /\ Len(published') \in Nat
      /\ Len(published) <= Len(published')
  BY PublishedGrows DEF TypeOK, CallStates, HeldFresh, FetchedDuringCall
<1>1. ASSUME NEW t \in Threads, CallWithRefresh(t) PROVE HeldFresh(u)'
  BY <1>0, <1>1
  DEF CallWithRefresh, Goto, LocalOnly, Frame, Begin, FirstStep, Blank, HeldFresh, Fetched, CallState
<1>2. ASSUME NEW t \in Threads, CallGetSigningKey(t) PROVE HeldFresh(u)'
  BY <1>0, <1>2
  DEF CallGetSigningKey, Goto, LocalOnly, Frame, Begin, FirstStep, Blank, HeldFresh, Fetched, CallState
<1>3. ASSUME NEW t \in Threads, LruHit(t) PROVE HeldFresh(u)'
  BY <1>0, <1>3
  DEF LruHit, Goto, LocalOnly, Frame, HeldFresh, Fetched, CallState
<1>4. ASSUME NEW t \in Threads, LruMiss(t) PROVE HeldFresh(u)'
  BY <1>0, <1>4
  DEF LruMiss, Goto, LocalOnly, Frame, FirstStep, HeldFresh, Fetched
<1>5. ASSUME NEW t \in Threads, LruStore(t) PROVE HeldFresh(u)'
  BY <1>0, <1>5
  DEF LruStore, Goto, LocalOnly, Frame, HeldFresh, Fetched
<1>6. ASSUME NEW t \in Threads, CacheCheck(t) PROVE HeldFresh(u)'
  BY <1>0, <1>6
  DEF CacheCheck, Goto, LocalOnly, Frame, HeldFresh, Fetched
<1>7. ASSUME NEW t \in Threads, CacheRecheck(t) PROVE HeldFresh(u)'
  BY <1>0, <1>7
  DEF CacheRecheck, Goto, LocalOnly, Frame, HeldFresh, Fetched
<1>8. ASSUME NEW t \in Threads, CacheCompare(t) PROVE HeldFresh(u)'
  BY <1>0, <1>8
  DEF CacheCompare, Goto, LocalOnly, Frame, HeldFresh, Fetched
<1>9. ASSUME NEW t \in Threads, CacheTake(t) PROVE HeldFresh(u)'
  BY <1>0, <1>9
  DEF CacheTake, Goto, LocalOnly, Frame, HeldFresh, Fetched, CallState
<1>10. ASSUME NEW t \in Threads, Answer(t) PROVE HeldFresh(u)'
  BY <1>0, <1>10
  DEF Answer, Goto, LocalOnly, Frame, AfterExchange, HeldFresh, Fetched, Version
<1>11. ASSUME NEW t \in Threads, FailExchange(t) PROVE HeldFresh(u)'
  BY <1>0, <1>11
  DEF FailExchange, Goto, LocalOnly, Frame, AfterExchange, HeldFresh, Fetched, CallState
<1>12. ASSUME NEW t \in Threads, StoreSet(t) PROVE HeldFresh(u)'
  BY <1>0, <1>12
  DEF StoreSet, Goto, LocalOnly, Frame, PutSet, HeldFresh, Fetched
<1>13. ASSUME NEW t \in Threads, StoreStamp(t) PROVE HeldFresh(u)'
  BY <1>0, <1>13
  DEF StoreStamp, Goto, LocalOnly, Frame, PutStamp, HeldFresh, Fetched
<1>14. ASSUME NEW t \in Threads, RaiseFetchError(t) PROVE HeldFresh(u)'
  BY <1>0, <1>14
  DEF RaiseFetchError, Goto, LocalOnly, Frame, Finish, HeldFresh, Fetched
<1>15. ASSUME NEW t \in Threads, DeliverFetched(t) PROVE HeldFresh(u)'
  BY <1>0, <1>15
  DEF DeliverFetched, Goto, LocalOnly, Frame, HeldFresh, Fetched
<1>16. ASSUME NEW t \in Threads, RaiseNotObject(t) PROVE HeldFresh(u)'
  BY <1>0, <1>16
  DEF RaiseNotObject, Goto, LocalOnly, Frame, Finish, HeldFresh, Fetched
<1>17. ASSUME NEW t \in Threads, RaiseSetError(t) PROVE HeldFresh(u)'
  BY <1>0, <1>17
  DEF RaiseSetError, Goto, LocalOnly, Frame, Finish, HeldFresh, Fetched
<1>18. ASSUME NEW t \in Threads, ReturnSet(t) PROVE HeldFresh(u)'
  BY <1>0, <1>18
  DEF ReturnSet, Goto, LocalOnly, Frame, Finish, HeldFresh, Fetched
<1>19. ASSUME NEW t \in Threads, RaiseNoSigningKeys(t) PROVE HeldFresh(u)'
  BY <1>0, <1>19
  DEF RaiseNoSigningKeys, Goto, LocalOnly, Frame, Finish, HeldFresh, Fetched
<1>20. ASSUME NEW t \in Threads, ReturnKeys(t) PROVE HeldFresh(u)'
  BY <1>0, <1>20
  DEF ReturnKeys, Goto, LocalOnly, Frame, Finish, HeldFresh, Fetched
<1>21. ASSUME NEW t \in Threads, ReturnMatch(t) PROVE HeldFresh(u)'
  BY <1>0, <1>21
  DEF ReturnMatch, Goto, LocalOnly, Frame, HeldFresh, Fetched
<1>22. ASSUME NEW t \in Threads, Retry(t) PROVE HeldFresh(u)'
  BY <1>0, <1>22
  DEF Retry, Goto, LocalOnly, Frame, FirstStep, HeldFresh, Fetched, CallState
<1>23. ASSUME NEW t \in Threads, RaiseNoMatch(t) PROVE HeldFresh(u)'
  BY <1>0, <1>23
  DEF RaiseNoMatch, Goto, LocalOnly, Frame, Finish, HeldFresh, Fetched
<1>24. ASSUME NEW t \in Threads, Return(t) PROVE HeldFresh(u)'
  BY <1>0, <1>24
  DEF Return, Goto, LocalOnly, Frame, Blank, HeldFresh, Fetched
<1>25. ASSUME Publish PROVE HeldFresh(u)'
  BY <1>0, <1>25 DEF Publish, HeldFresh, Fetched
<1>26. ASSUME Tick PROVE HeldFresh(u)'
  BY <1>0, <1>26 DEF Tick, HeldFresh, Fetched
<1>27. ASSUME UNCHANGED vars PROVE HeldFresh(u)'
  BY <1>0, <1>27 DEF vars, HeldFresh, Fetched
<1> QED
  BY <1>1, <1>2, <1>3, <1>4, <1>5, <1>6, <1>7, <1>8, <1>9, <1>10, <1>11, <1>12, <1>13, <1>14, <1>15, <1>16, <1>17, <1>18, <1>19, <1>20, <1>21, <1>22, <1>23, <1>24, <1>25, <1>26, <1>27 DEF Next, Running

NotFoundRight(t) ==
    call[t].outcome = "no_match" =>
        /\ call[t].data \in call[t].since..Len(published)
        /\ ~HoldsKey(call[t].data, call[t].kid)

LEMMA StepNotFoundIsCurrent ==
  ASSUME TypeOK, CallStates, FetchedDuringCall, NotFoundIsCurrent, [Next]_vars
  PROVE  NotFoundIsCurrent'
<1> SUFFICES ASSUME NEW u \in Threads PROVE NotFoundRight(u)'
  BY DEF NotFoundIsCurrent, NotFoundRight
<1>0. /\ pc \in [Threads -> Labels]
      /\ call \in [Threads -> Frame]
      /\ CallState(u)
      /\ NotFoundRight(u)
      /\ call[u].data \in Version /\ call[u].since \in Version
      /\ Len(published) \in Nat /\ Len(published') \in Nat
      /\ Len(published) <= Len(published')
  BY PublishedGrows DEF TypeOK, CallStates, NotFoundRight, NotFoundIsCurrent
<1>1. ASSUME NEW t \in Threads, CallWithRefresh(t) PROVE NotFoundRight(u)'
  BY <1>0, <1>1
  DEF CallWithRefresh, Goto, LocalOnly, Frame, Begin, FirstStep, Blank, NotFoundRight, HoldsKey, Usable, KeysOf, Body, CallState
<1>2. ASSUME NEW t \in Threads, CallGetSigningKey(t) PROVE NotFoundRight(u)'
  BY <1>0, <1>2
  DEF CallGetSigningKey, Goto, LocalOnly, Frame, Begin, FirstStep, Blank, NotFoundRight, HoldsKey, Usable, KeysOf, Body, CallState
<1>3. ASSUME NEW t \in Threads, LruHit(t) PROVE NotFoundRight(u)'
  BY <1>0, <1>3
  DEF LruHit, Goto, LocalOnly, Frame, NotFoundRight, HoldsKey, Usable, KeysOf, Body, CallState
<1>4. ASSUME NEW t \in Threads, LruMiss(t) PROVE NotFoundRight(u)'
  BY <1>0, <1>4
  DEF LruMiss, Goto, LocalOnly, Frame, FirstStep, NotFoundRight, HoldsKey, Usable, KeysOf, Body, CallState
<1>5. ASSUME NEW t \in Threads, LruStore(t) PROVE NotFoundRight(u)'
  BY <1>0, <1>5
  DEF LruStore, Goto, LocalOnly, Frame, NotFoundRight, HoldsKey, Usable, KeysOf, Body, CallState
<1>6. ASSUME NEW t \in Threads, CacheCheck(t) PROVE NotFoundRight(u)'
  BY <1>0, <1>6
  DEF CacheCheck, Goto, LocalOnly, Frame, NotFoundRight, HoldsKey, Usable, KeysOf, Body, CallState
<1>7. ASSUME NEW t \in Threads, CacheRecheck(t) PROVE NotFoundRight(u)'
  BY <1>0, <1>7
  DEF CacheRecheck, Goto, LocalOnly, Frame, NotFoundRight, HoldsKey, Usable, KeysOf, Body, CallState
<1>8. ASSUME NEW t \in Threads, CacheCompare(t) PROVE NotFoundRight(u)'
  BY <1>0, <1>8
  DEF CacheCompare, Goto, LocalOnly, Frame, NotFoundRight, HoldsKey, Usable, KeysOf, Body, CallState
<1>9. ASSUME NEW t \in Threads, CacheTake(t) PROVE NotFoundRight(u)'
  BY <1>0, <1>9
  DEF CacheTake, Goto, LocalOnly, Frame, NotFoundRight, HoldsKey, Usable, KeysOf, Body, CallState
<1>10. ASSUME NEW t \in Threads, Answer(t) PROVE NotFoundRight(u)'
  BY <1>0, <1>10
  DEF Answer, Goto, LocalOnly, Frame, AfterExchange, NotFoundRight, HoldsKey, Usable, KeysOf, Body, CallState
<1>11. ASSUME NEW t \in Threads, FailExchange(t) PROVE NotFoundRight(u)'
  BY <1>0, <1>11
  DEF FailExchange, Goto, LocalOnly, Frame, AfterExchange, NotFoundRight, HoldsKey, Usable, KeysOf, Body, CallState
<1>12. ASSUME NEW t \in Threads, StoreSet(t) PROVE NotFoundRight(u)'
  BY <1>0, <1>12
  DEF StoreSet, Goto, LocalOnly, Frame, PutSet, NotFoundRight, HoldsKey, Usable, KeysOf, Body, CallState
<1>13. ASSUME NEW t \in Threads, StoreStamp(t) PROVE NotFoundRight(u)'
  BY <1>0, <1>13
  DEF StoreStamp, Goto, LocalOnly, Frame, PutStamp, NotFoundRight, HoldsKey, Usable, KeysOf, Body, CallState
<1>14. ASSUME NEW t \in Threads, RaiseFetchError(t) PROVE NotFoundRight(u)'
  <2>1. call[t].failure # "no_match"
    BY <1>0 DEF Frame, Failures
  <2>2. QED
    BY <1>0, <2>1, <1>14 DEF RaiseFetchError, Goto, LocalOnly, Frame, Finish,
       NotFoundRight, HoldsKey, Usable, KeysOf, Body
<1>15. ASSUME NEW t \in Threads, DeliverFetched(t) PROVE NotFoundRight(u)'
  BY <1>0, <1>15
  DEF DeliverFetched, Goto, LocalOnly, Frame, NotFoundRight, HoldsKey, Usable, KeysOf, Body, CallState
<1>16. ASSUME NEW t \in Threads, RaiseNotObject(t) PROVE NotFoundRight(u)'
  BY <1>0, <1>16
  DEF RaiseNotObject, Goto, LocalOnly, Frame, Finish, NotFoundRight, HoldsKey, Usable, KeysOf, Body, CallState
<1>17. ASSUME NEW t \in Threads, RaiseSetError(t) PROVE NotFoundRight(u)'
  BY <1>0, <1>17
  DEF RaiseSetError, Goto, LocalOnly, Frame, Finish, NotFoundRight, HoldsKey, Usable, KeysOf, Body, CallState
<1>18. ASSUME NEW t \in Threads, ReturnSet(t) PROVE NotFoundRight(u)'
  BY <1>0, <1>18
  DEF ReturnSet, Goto, LocalOnly, Frame, Finish, NotFoundRight, HoldsKey, Usable, KeysOf, Body, CallState
<1>19. ASSUME NEW t \in Threads, RaiseNoSigningKeys(t) PROVE NotFoundRight(u)'
  BY <1>0, <1>19
  DEF RaiseNoSigningKeys, Goto, LocalOnly, Frame, Finish, NotFoundRight, HoldsKey, Usable, KeysOf, Body, CallState
<1>20. ASSUME NEW t \in Threads, ReturnKeys(t) PROVE NotFoundRight(u)'
  BY <1>0, <1>20
  DEF ReturnKeys, Goto, LocalOnly, Frame, Finish, NotFoundRight, HoldsKey, Usable, KeysOf, Body, CallState
<1>21. ASSUME NEW t \in Threads, ReturnMatch(t) PROVE NotFoundRight(u)'
  BY <1>0, <1>21
  DEF ReturnMatch, Goto, LocalOnly, Frame, NotFoundRight, HoldsKey, Usable, KeysOf, Body, CallState
<1>22. ASSUME NEW t \in Threads, Retry(t) PROVE NotFoundRight(u)'
  BY <1>0, <1>22
  DEF Retry, Goto, LocalOnly, Frame, FirstStep, NotFoundRight, HoldsKey, Usable, KeysOf, Body, CallState
<1>23. ASSUME NEW t \in Threads, RaiseNoMatch(t) PROVE NotFoundRight(u)'
  <2>1. /\ call[t].data \in call[t].since..Len(published)
        /\ ~HoldsKey(call[t].data, call[t].kid)
    <3>1. Fetched(t) /\ call[t].data # NoSet
      BY <1>23 DEF RaiseNoMatch, CallStates, CallState, Fetched, HasKeys, HasSet,
               HasObject
    <3>2. call[t].since <= call[t].data
      BY <3>1 DEF FetchedDuringCall
    <3>3. call[t].data \in Version /\ call[t].since \in Version
      BY DEF TypeOK
    <3>4. call[t].data \in call[t].since..Len(published)
      BY <1>0, <3>2, <3>3 DEF Version
    <3>5. QED
      BY <3>4, <1>23 DEF RaiseNoMatch, Matches, HoldsKey
  <2>2. QED
    BY <1>0, <2>1, <1>23 DEF RaiseNoMatch, Goto, LocalOnly, Frame, Finish,
       NotFoundRight, HoldsKey, Usable, KeysOf, Body
<1>24. ASSUME NEW t \in Threads, Return(t) PROVE NotFoundRight(u)'
  BY <1>0, <1>24
  DEF Return, Goto, LocalOnly, Frame, Blank, NotFoundRight, HoldsKey, Usable, KeysOf, Body, CallState
<1>25. ASSUME Publish PROVE NotFoundRight(u)'
  <2>1. CASE call[u].outcome = "no_match"
    <3>1. /\ call[u].data \in call[u].since..Len(published)
          /\ ~HoldsKey(call[u].data, call[u].kid)
      BY <1>0, <2>1 DEF NotFoundRight
    <3>2. UNCHANGED call
      BY <1>25 DEF Publish
    <3>3. \A v \in 1..Len(published) : published'[v] = published[v]
      BY PublishedGrows
    <3>4. call[u].data \in call[u].since..Len(published')
      BY <1>0, <3>1 DEF Version
    <3>5. call[u].data \in 1..Len(published')
            => call[u].data \in 1..Len(published)
      BY <1>0 DEF Version
    <3>6. QED
      BY <3>1, <3>2, <3>3, <3>4, <3>5
      DEF NotFoundRight, HoldsKey, Usable, KeysOf, Body
  <2>2. QED
    BY <2>1, <1>25 DEF Publish, NotFoundRight
<1>26. ASSUME Tick PROVE NotFoundRight(u)'
  BY <1>0, <1>26 DEF Tick, NotFoundRight, HoldsKey, Usable, KeysOf, Body
<1>27. ASSUME UNCHANGED vars PROVE NotFoundRight(u)'
  BY <1>0, <1>27 DEF vars, NotFoundRight, HoldsKey, Usable, KeysOf, Body
<1> QED
  BY <1>1, <1>2, <1>3, <1>4, <1>5, <1>6, <1>7, <1>8, <1>9, <1>10, <1>11, <1>12, <1>13, <1>14, <1>15, <1>16, <1>17, <1>18, <1>19, <1>20, <1>21, <1>22, <1>23, <1>24, <1>25, <1>26, <1>27 DEF Next, Running

FetchedRight(t) ==
    call[t].outcome = "ok" /\ call[t].fetches > 0 =>
        call[t].data \in call[t].since..Len(published)

LEMMA StepFetchedIsCurrent ==
  ASSUME TypeOK, CallStates, FetchedDuringCall, FetchedIsCurrent, [Next]_vars
  PROVE  FetchedIsCurrent'
<1> SUFFICES ASSUME NEW u \in Threads PROVE FetchedRight(u)'
  BY DEF FetchedIsCurrent, FetchedRight
<1>0. /\ pc \in [Threads -> Labels]
      /\ call \in [Threads -> Frame]
      /\ CallState(u)
      /\ FetchedRight(u)
      /\ call[u].data \in Version /\ call[u].since \in Version
      /\ Len(published) \in Nat /\ Len(published') \in Nat
      /\ Len(published) <= Len(published')
  BY PublishedGrows DEF TypeOK, CallStates, FetchedRight, FetchedIsCurrent
<1>28. ASSUME pc[u] = "parse", HasSet(u), call[u].fetches > 0
      PROVE  call[u].data \in call[u].since..Len(published)
  <2>1. call[u].data # NoSet /\ Fetched(u)
    BY <1>28 DEF HasSet, HasObject, Fetched
  <2>2. QED
    BY <1>0, <2>1 DEF FetchedDuringCall, Version
<1>1. ASSUME NEW t \in Threads, CallWithRefresh(t) PROVE FetchedRight(u)'
  BY <1>0, <1>1
  DEF CallWithRefresh, Goto, LocalOnly, Frame, Begin, FirstStep, Blank, FetchedRight, CallState
<1>2. ASSUME NEW t \in Threads, CallGetSigningKey(t) PROVE FetchedRight(u)'
  BY <1>0, <1>2
  DEF CallGetSigningKey, Goto, LocalOnly, Frame, Begin, FirstStep, Blank, FetchedRight, CallState
<1>3. ASSUME NEW t \in Threads, LruHit(t) PROVE FetchedRight(u)'
  BY <1>0, <1>3
  DEF LruHit, Goto, LocalOnly, Frame, FetchedRight, CallState
<1>4. ASSUME NEW t \in Threads, LruMiss(t) PROVE FetchedRight(u)'
  BY <1>0, <1>4
  DEF LruMiss, Goto, LocalOnly, Frame, FirstStep, FetchedRight, CallState
<1>5. ASSUME NEW t \in Threads, LruStore(t) PROVE FetchedRight(u)'
  BY <1>0, <1>5
  DEF LruStore, Goto, LocalOnly, Frame, FetchedRight, CallState
<1>6. ASSUME NEW t \in Threads, CacheCheck(t) PROVE FetchedRight(u)'
  BY <1>0, <1>6
  DEF CacheCheck, Goto, LocalOnly, Frame, FetchedRight, CallState
<1>7. ASSUME NEW t \in Threads, CacheRecheck(t) PROVE FetchedRight(u)'
  BY <1>0, <1>7
  DEF CacheRecheck, Goto, LocalOnly, Frame, FetchedRight, CallState
<1>8. ASSUME NEW t \in Threads, CacheCompare(t) PROVE FetchedRight(u)'
  BY <1>0, <1>8
  DEF CacheCompare, Goto, LocalOnly, Frame, FetchedRight, CallState
<1>9. ASSUME NEW t \in Threads, CacheTake(t) PROVE FetchedRight(u)'
  BY <1>0, <1>9
  DEF CacheTake, Goto, LocalOnly, Frame, FetchedRight, CallState
<1>10. ASSUME NEW t \in Threads, Answer(t) PROVE FetchedRight(u)'
  BY <1>0, <1>10
  DEF Answer, Goto, LocalOnly, Frame, AfterExchange, FetchedRight, CallState
<1>11. ASSUME NEW t \in Threads, FailExchange(t) PROVE FetchedRight(u)'
  BY <1>0, <1>11
  DEF FailExchange, Goto, LocalOnly, Frame, AfterExchange, FetchedRight, CallState
<1>12. ASSUME NEW t \in Threads, StoreSet(t) PROVE FetchedRight(u)'
  BY <1>0, <1>12
  DEF StoreSet, Goto, LocalOnly, Frame, PutSet, FetchedRight, CallState
<1>13. ASSUME NEW t \in Threads, StoreStamp(t) PROVE FetchedRight(u)'
  BY <1>0, <1>13
  DEF StoreStamp, Goto, LocalOnly, Frame, PutStamp, FetchedRight, CallState
<1>14. ASSUME NEW t \in Threads, RaiseFetchError(t) PROVE FetchedRight(u)'
  <2>1. call[t].failure # "ok"
    BY <1>0 DEF Frame, Failures
  <2>2. QED
    BY <1>0, <2>1, <1>14 DEF RaiseFetchError, Goto, LocalOnly, Frame, Finish,
       FetchedRight
<1>15. ASSUME NEW t \in Threads, DeliverFetched(t) PROVE FetchedRight(u)'
  BY <1>0, <1>15
  DEF DeliverFetched, Goto, LocalOnly, Frame, FetchedRight, CallState
<1>16. ASSUME NEW t \in Threads, RaiseNotObject(t) PROVE FetchedRight(u)'
  BY <1>0, <1>16
  DEF RaiseNotObject, Goto, LocalOnly, Frame, Finish, FetchedRight, CallState
<1>17. ASSUME NEW t \in Threads, RaiseSetError(t) PROVE FetchedRight(u)'
  BY <1>0, <1>17
  DEF RaiseSetError, Goto, LocalOnly, Frame, Finish, FetchedRight, CallState
<1>18. ASSUME NEW t \in Threads, ReturnSet(t) PROVE FetchedRight(u)'
  BY <1>0, <1>28, <1>18 DEF ReturnSet, Goto, LocalOnly, Frame, FetchedRight, Finish
<1>19. ASSUME NEW t \in Threads, RaiseNoSigningKeys(t) PROVE FetchedRight(u)'
  BY <1>0, <1>19
  DEF RaiseNoSigningKeys, Goto, LocalOnly, Frame, Finish, FetchedRight, CallState
<1>20. ASSUME NEW t \in Threads, ReturnKeys(t) PROVE FetchedRight(u)'
  BY <1>0, <1>28, <1>20 DEF ReturnKeys, Goto, LocalOnly, Frame, FetchedRight, Finish, HasKeys
<1>21. ASSUME NEW t \in Threads, ReturnMatch(t) PROVE FetchedRight(u)'
  BY <1>0, <1>28, <1>21 DEF ReturnMatch, Goto, LocalOnly, Frame, FetchedRight, HasKeys
<1>22. ASSUME NEW t \in Threads, Retry(t) PROVE FetchedRight(u)'
  BY <1>0, <1>22
  DEF Retry, Goto, LocalOnly, Frame, FirstStep, FetchedRight, CallState
<1>23. ASSUME NEW t \in Threads, RaiseNoMatch(t) PROVE FetchedRight(u)'
  BY <1>0, <1>23
  DEF RaiseNoMatch, Goto, LocalOnly, Frame, Finish, FetchedRight, CallState
<1>24. ASSUME NEW t \in Threads, Return(t) PROVE FetchedRight(u)'
  BY <1>0, <1>24
  DEF Return, Goto, LocalOnly, Frame, Blank, FetchedRight, CallState
<1>25. ASSUME Publish PROVE FetchedRight(u)'
  BY <1>0, <1>25 DEF Publish, FetchedRight, Version
<1>26. ASSUME Tick PROVE FetchedRight(u)'
  BY <1>0, <1>26 DEF Tick, FetchedRight, CallState
<1>27. ASSUME UNCHANGED vars PROVE FetchedRight(u)'
  BY <1>0, <1>27 DEF vars, FetchedRight, CallState
<1> QED
  BY <1>1, <1>2, <1>3, <1>4, <1>5, <1>6, <1>7, <1>8, <1>9, <1>10, <1>11, <1>12, <1>13, <1>14, <1>15, <1>16, <1>17, <1>18, <1>19, <1>20, <1>21, <1>22, <1>23, <1>24, <1>25, <1>26, <1>27 DEF Next, Running

LEMMA InitReports ==
  Init => FetchedDuringCall /\ NotFoundIsCurrent /\ FetchedIsCurrent
BY DEF Init, FetchedDuringCall, Fetched, NotFoundIsCurrent, FetchedIsCurrent,
       Blank

(* "No match" is about a document of this very call, never a stale one.     *)
THEOREM NotFoundIsCurrentHolds == Spec => []NotFoundIsCurrent
<1>1. TypeOK /\ CallStates /\ FetchedDuringCall /\ NotFoundIsCurrent
        /\ [Next]_vars => FetchedDuringCall' /\ NotFoundIsCurrent'
  BY StepFetchedDuringCall, StepNotFoundIsCurrent
<1>2. QED
  BY TypeCorrect, InitCallStates, StepCallStates, InitReports, <1>1, PTL
  DEF Spec

(* A call that went to the network answers from what it fetched itself.     *)
THEOREM FetchedIsCurrentHolds == Spec => []FetchedIsCurrent
<1>1. TypeOK /\ CallStates /\ FetchedDuringCall /\ FetchedIsCurrent
        /\ [Next]_vars => FetchedDuringCall' /\ FetchedIsCurrent'
  BY StepFetchedDuringCall, StepFetchedIsCurrent
<1>2. QED
  BY TypeCorrect, InitCallStates, StepCallStates, InitReports, <1>1, PTL
  DEF Spec

-----------------------------------------------------------------------------
(* Errors that blame the endpoint's document.                               *)

NullFree(v) == v # NoSet => Body(v).shape # "null"

SomeNull == \E v \in 1..Len(published) : Body(v).shape = "null"

NullState(t) ==
    /\ NullFree(call[t].data)
    /\ /\ pc[t] \in {"put", "stamp", "fetched", "parse"}
       /\ call[t].data = NoSet
       /\ call[t].failure = "none"
       => SomeNull

LEMMA DocumentsStay ==
  ASSUME TypeOK, [Next]_vars
  PROVE  /\ \A v \in Version : v # NoSet => Body(v)' = Body(v)
         /\ SomeNull => SomeNull'
         /\ \A v \in Version : NullFree(v) /\ v # NoSet => Body(v)'.shape # "null"
<1>1. \A v \in Version : v # NoSet => v \in 1..Len(published)
  BY PublishedGrows DEF Version, NoSet
<1>2. QED
  BY <1>1, PublishedGrows DEF Body, SomeNull, NullFree

LEMMA StepNullState ==
  ASSUME TypeOK, CallStates, Provenance, NullIsNone, [Next]_vars,
         NEW u \in Threads
  PROVE  NullState(u)'
<1>0. /\ pc \in [Threads -> Labels]
      /\ call \in [Threads -> Frame]
      /\ CallState(u)
      /\ NullState(u)
      /\ SomeNull => SomeNull'
      /\ NullFree(jwkSet)
  BY DocumentsStay DEF TypeOK, CallStates, NullState, NullIsNone, NullFree,
     SomeNull
<1>1. ASSUME NEW t \in Threads, CallWithRefresh(t) PROVE NullState(u)'
  BY <1>0, <1>1
  DEF CallWithRefresh, Goto, LocalOnly, Frame, Begin, FirstStep, Blank, NullState, NullFree, Body, SomeNull, NoSet
<1>2. ASSUME NEW t \in Threads, CallGetSigningKey(t) PROVE NullState(u)'
  BY <1>0, <1>2
  DEF CallGetSigningKey, Goto, LocalOnly, Frame, Begin, FirstStep, Blank, NullState, NullFree, Body, SomeNull, NoSet
<1>3. ASSUME NEW t \in Threads, LruHit(t) PROVE NullState(u)'
  <2>1. PICK i \in 1..Len(lru) :
           call' = [call EXCEPT ![t].data = lru[i].ver,
                                ![t].outcome = "cached_key"]
    BY <1>3 DEF LruHit, EntriesFor
  <2>2. Body(lru[i].ver).shape = "set"
    BY DEF Provenance, HoldsKey, Usable
  <2>3. QED
    BY <1>0, <2>1, <2>2, <1>3
    DEF LruHit, Goto, Frame, NullState, NullFree, Body, SomeNull
<1>4. ASSUME NEW t \in Threads, LruMiss(t) PROVE NullState(u)'
  BY <1>0, <1>4
  DEF LruMiss, Goto, LocalOnly, Frame, FirstStep, NullState, NullFree, Body, SomeNull
<1>5. ASSUME NEW t \in Threads, LruStore(t) PROVE NullState(u)'
  BY <1>0, <1>5
  DEF LruStore, Goto, LocalOnly, Frame, NullState, NullFree, Body, SomeNull
<1>6. ASSUME NEW t \in Threads, CacheCheck(t) PROVE NullState(u)'
  BY <1>0, <1>6
  DEF CacheCheck, Goto, LocalOnly, Frame, NullState, NullFree, Body, SomeNull
<1>7. ASSUME NEW t \in Threads, CacheRecheck(t) PROVE NullState(u)'
  BY <1>0, <1>7
  DEF CacheRecheck, Goto, LocalOnly, Frame, NullState, NullFree, Body, SomeNull
<1>8. ASSUME NEW t \in Threads, CacheCompare(t) PROVE NullState(u)'
  BY <1>0, <1>8
  DEF CacheCompare, Goto, LocalOnly, Frame, NullState, NullFree, Body, SomeNull
<1>9. ASSUME NEW t \in Threads, CacheTake(t) PROVE NullState(u)'
  BY <1>0, <1>9
  DEF CacheTake, Goto, LocalOnly, Frame, NullState, NullFree, Body, SomeNull, CallState
<1>10. ASSUME NEW t \in Threads, Answer(t) PROVE NullState(u)'
  <2> DEFINE d == IF Body(Len(published)).shape = "null"
                 THEN NoSet ELSE Len(published)
  <2>1. /\ d # NoSet => Body(d).shape # "null"
        /\ d = NoSet => SomeNull
    BY DEF TypeOK, NoSet, SomeNull
  <2>2. call' = [call EXCEPT ![t].data = d, ![t].fetches = Sent(t)]
    BY <1>10 DEF Answer
  <2> HIDE DEF d
  <2>3. QED
    BY <1>0, <2>1, <2>2, <1>10
    DEF Answer, LocalOnly, Goto, Frame, NullState, NullFree, Body, SomeNull
<1>11. ASSUME NEW t \in Threads, FailExchange(t) PROVE NullState(u)'
  BY <1>0, <1>11
  DEF FailExchange, Goto, LocalOnly, Frame, AfterExchange, NullState, NullFree, Body, SomeNull, Failures
<1>12. ASSUME NEW t \in Threads, StoreSet(t) PROVE NullState(u)'
  BY <1>0, <1>12
  DEF StoreSet, Goto, LocalOnly, Frame, PutSet, NullState, NullFree, Body, SomeNull
<1>13. ASSUME NEW t \in Threads, StoreStamp(t) PROVE NullState(u)'
  BY <1>0, <1>13
  DEF StoreStamp, Goto, LocalOnly, Frame, PutStamp, NullState, NullFree, Body, SomeNull
<1>14. ASSUME NEW t \in Threads, RaiseFetchError(t) PROVE NullState(u)'
  BY <1>0, <1>14
  DEF RaiseFetchError, Goto, LocalOnly, Frame, Finish, NullState, NullFree, Body, SomeNull
<1>15. ASSUME NEW t \in Threads, DeliverFetched(t) PROVE NullState(u)'
  BY <1>0, <1>15
  DEF DeliverFetched, Goto, LocalOnly, Frame, NullState, NullFree, Body, SomeNull
<1>16. ASSUME NEW t \in Threads, RaiseNotObject(t) PROVE NullState(u)'
  BY <1>0, <1>16
  DEF RaiseNotObject, Goto, LocalOnly, Frame, Finish, NullState, NullFree, Body, SomeNull
<1>17. ASSUME NEW t \in Threads, RaiseSetError(t) PROVE NullState(u)'
  BY <1>0, <1>17
  DEF RaiseSetError, Goto, LocalOnly, Frame, Finish, NullState, NullFree, Body, SomeNull
<1>18. ASSUME NEW t \in Threads, ReturnSet(t) PROVE NullState(u)'
  BY <1>0, <1>18
  DEF ReturnSet, Goto, LocalOnly, Frame, Finish, NullState, NullFree, Body, SomeNull
<1>19. ASSUME NEW t \in Threads, RaiseNoSigningKeys(t) PROVE NullState(u)'
  BY <1>0, <1>19
  DEF RaiseNoSigningKeys, Goto, LocalOnly, Frame, Finish, NullState, NullFree, Body, SomeNull
<1>20. ASSUME NEW t \in Threads, ReturnKeys(t) PROVE NullState(u)'
  BY <1>0, <1>20
  DEF ReturnKeys, Goto, LocalOnly, Frame, Finish, NullState, NullFree, Body, SomeNull
<1>21. ASSUME NEW t \in Threads, ReturnMatch(t) PROVE NullState(u)'
  BY <1>0, <1>21
  DEF ReturnMatch, Goto, LocalOnly, Frame, NullState, NullFree, Body, SomeNull
<1>22. ASSUME NEW t \in Threads, Retry(t) PROVE NullState(u)'
  BY <1>0, <1>22
  DEF Retry, Goto, LocalOnly, Frame, FirstStep, NullState, NullFree, Body, SomeNull
<1>23. ASSUME NEW t \in Threads, RaiseNoMatch(t) PROVE NullState(u)'
  BY <1>0, <1>23
  DEF RaiseNoMatch, Goto, LocalOnly, Frame, Finish, NullState, NullFree, Body, SomeNull
<1>24. ASSUME NEW t \in Threads, Return(t) PROVE NullState(u)'
  BY <1>0, <1>24
  DEF Return, Goto, LocalOnly, Frame, Blank, NullState, NullFree, Body, SomeNull, NoSet
<1>25. ASSUME Publish PROVE NullState(u)'
  <2>1. call[u].data \in Version
    BY DEF TypeOK
  <2>2. UNCHANGED <<pc, call>>
    BY <1>25 DEF Publish
  <2>3. NullFree(call[u].data)'
    BY <1>0, <2>1, <2>2, DocumentsStay DEF NullState, NullFree, NoSet, Body
  <2>4. QED
    BY <1>0, <2>2, <2>3 DEF NullState, NoSet
<1>26. ASSUME Tick PROVE NullState(u)'
  BY <1>0, <1>26 DEF Tick, NullState, NullFree, Body, SomeNull
<1>27. ASSUME UNCHANGED vars PROVE NullState(u)'
  BY <1>0, <1>27 DEF vars, NullState, NullFree, Body, SomeNull
<1> QED
  BY <1>1, <1>2, <1>3, <1>4, <1>5, <1>6, <1>7, <1>8, <1>9, <1>10, <1>11, <1>12, <1>13, <1>14, <1>15, <1>16, <1>17, <1>18, <1>19, <1>20, <1>21, <1>22, <1>23, <1>24, <1>25, <1>26, <1>27 DEF Next, Running

LEMMA StepCacheNullFree ==
  ASSUME TypeOK, CallStates, NullIsNone, [Next]_vars
  PROVE  NullFree(jwkSet)'
<1>1. CASE jwkSet' = jwkSet
  BY <1>1, DocumentsStay DEF NullIsNone, NullFree, TypeOK, Body, NoSet
<1>2. ASSUME NEW t \in Threads, StoreSet(t)
      PROVE  NullFree(jwkSet)'
  BY <1>2 DEF StoreSet, PutSet, NullIsNone, NullFree, Body
<1>3. jwkSet' = jwkSet \/ \E t \in Threads : StoreSet(t)
  BY DEF Next, Running, vars, cacheVars, LocalOnly, Begin, Publish, Tick, CacheTick,
     PutStamp, CallWithRefresh, CallGetSigningKey, LruHit, LruMiss, LruStore, CacheCheck, CacheRecheck, CacheCompare, CacheTake, Answer, FailExchange, StoreStamp, RaiseFetchError, DeliverFetched, RaiseNotObject, RaiseSetError, ReturnSet, RaiseNoSigningKeys, ReturnKeys, ReturnMatch, Retry, RaiseNoMatch, Return
<1>4. QED
  BY <1>1, <1>2, <1>3

LEMMA StepNullIsNone ==
  ASSUME TypeOK, CallStates, Provenance, NullIsNone, [Next]_vars
  PROVE  NullIsNone'
BY StepCacheNullFree, StepNullState DEF NullIsNone, NullFree, NullState, SomeNull

ErrorRight(t) ==
    /\ call[t].outcome = "not_object" =>
         \E v \in 1..Len(published) : Body(v).shape \in {"null", "notobject"}
    /\ call[t].outcome = "set_error" =>
         \E v \in 1..Len(published) : Body(v).shape = "unusable"
    /\ call[t].outcome = "no_signing_keys" =>
         \E v \in 1..Len(published) : Usable(v) /\ KeysOf(v) = {}

LEMMA StepErrors ==
  ASSUME TypeOK, CallStates, NullIsNone, ErrorsBlameTheEndpoint, [Next]_vars
  PROVE  ErrorsBlameTheEndpoint'
<1> SUFFICES ASSUME NEW u \in Threads PROVE ErrorRight(u)'
  BY DEF ErrorsBlameTheEndpoint, ErrorRight
<1>0. /\ pc \in [Threads -> Labels]
      /\ call \in [Threads -> Frame]
      /\ CallState(u)
      /\ ErrorRight(u)
      /\ call[u].data \in Version
  BY DEF TypeOK, CallStates, ErrorsBlameTheEndpoint, ErrorRight
<1>a. ASSUME published' = published,
             \/ call'[u].outcome = call[u].outcome
             \/ call'[u].outcome \notin {"not_object", "set_error", "no_signing_keys"}
      PROVE  ErrorRight(u)'
  BY <1>0, <1>a DEF ErrorRight, Body, Usable, KeysOf
<1>1. ASSUME NEW t \in Threads, CallWithRefresh(t) PROVE ErrorRight(u)'
  BY <1>0, <1>1, <1>a DEF CallWithRefresh, Goto, LocalOnly, Frame, Begin, FirstStep, Blank
<1>2. ASSUME NEW t \in Threads, CallGetSigningKey(t) PROVE ErrorRight(u)'
  BY <1>0, <1>2, <1>a DEF CallGetSigningKey, Goto, LocalOnly, Frame, Begin, FirstStep, Blank
<1>3. ASSUME NEW t \in Threads, LruHit(t) PROVE ErrorRight(u)'
  BY <1>0, <1>3, <1>a DEF LruHit, Goto, LocalOnly, Frame
<1>4. ASSUME NEW t \in Threads, LruMiss(t) PROVE ErrorRight(u)'
  BY <1>0, <1>4, <1>a DEF LruMiss, Goto, LocalOnly, Frame, FirstStep
<1>5. ASSUME NEW t \in Threads, LruStore(t) PROVE ErrorRight(u)'
  BY <1>0, <1>5, <1>a DEF LruStore, Goto, LocalOnly, Frame
<1>6. ASSUME NEW t \in Threads, CacheCheck(t) PROVE ErrorRight(u)'
  BY <1>0, <1>6, <1>a DEF CacheCheck, Goto, LocalOnly, Frame
<1>7. ASSUME NEW t \in Threads, CacheRecheck(t) PROVE ErrorRight(u)'
  BY <1>0, <1>7, <1>a DEF CacheRecheck, Goto, LocalOnly, Frame
<1>8. ASSUME NEW t \in Threads, CacheCompare(t) PROVE ErrorRight(u)'
  BY <1>0, <1>8, <1>a DEF CacheCompare, Goto, LocalOnly, Frame
<1>9. ASSUME NEW t \in Threads, CacheTake(t) PROVE ErrorRight(u)'
  BY <1>0, <1>9, <1>a DEF CacheTake, Goto, LocalOnly, Frame
<1>10. ASSUME NEW t \in Threads, Answer(t) PROVE ErrorRight(u)'
  BY <1>0, <1>10, <1>a DEF Answer, LocalOnly, Frame
<1>11. ASSUME NEW t \in Threads, FailExchange(t) PROVE ErrorRight(u)'
  BY <1>0, <1>11, <1>a DEF FailExchange, LocalOnly, Frame
<1>12. ASSUME NEW t \in Threads, StoreSet(t) PROVE ErrorRight(u)'
  BY <1>0, <1>12, <1>a DEF StoreSet, Goto, LocalOnly, Frame, PutSet
<1>13. ASSUME NEW t \in Threads, StoreStamp(t) PROVE ErrorRight(u)'
  BY <1>0, <1>13, <1>a DEF StoreStamp, Goto, LocalOnly, Frame, PutStamp
<1>14. ASSUME NEW t \in Threads, RaiseFetchError(t) PROVE ErrorRight(u)'
  <2>1. call[t].failure \notin {"not_object", "set_error", "no_signing_keys"}
    BY <1>0 DEF Frame, Failures
  <2>2. QED
    BY <1>0, <2>1, <1>14, <1>a DEF RaiseFetchError, LocalOnly, Frame, Finish
<1>15. ASSUME NEW t \in Threads, DeliverFetched(t) PROVE ErrorRight(u)'
  BY <1>0, <1>15, <1>a DEF DeliverFetched, Goto, LocalOnly, Frame
<1>16. ASSUME NEW t \in Threads, RaiseNotObject(t) PROVE ErrorRight(u)'
  <2>1. \E v \in 1..Len(published) : Body(v).shape \in {"null", "notobject"}
    <3>1. CASE call[t].data = NoSet
      <4>1. call[t].failure = "none"
        BY <1>16 DEF RaiseNotObject, CallStates, CallState
      <4>2. QED
        BY <3>1, <4>1, <1>16 DEF RaiseNotObject, NullIsNone
    <3>2. CASE call[t].data # NoSet
      BY <3>2, <1>16 DEF RaiseNotObject, HasObject, TypeOK, Version, NoSet
    <3>3. QED BY <3>1, <3>2
  <2>2. QED
    BY <1>0, <2>1, <1>16 DEF RaiseNotObject, Goto, LocalOnly, Frame, Finish,
       ErrorRight, Body, Usable, KeysOf
<1>17. ASSUME NEW t \in Threads, RaiseSetError(t) PROVE ErrorRight(u)'
  <2>1. \E v \in 1..Len(published) : Body(v).shape = "unusable"
    <3> DEFINE d == call[t].data
    <3>1. /\ d \in 1..Len(published)
          /\ Body(d).shape \notin {"notobject", "set"}
      BY <1>17 DEF RaiseSetError, HasSet, HasObject, Usable, TypeOK, Version, NoSet
    <3>2. Body(d).shape # "null"
      BY <3>1 DEF NullIsNone, NoSet
    <3>3. Body(d) \in Docs /\ Body(d).shape \in Shapes
      BY <3>1, ClientAssumption DEF Body, TypeOK
    <3>4. QED
      BY <3>1, <3>2, <3>3 DEF Shapes
  <2>2. QED
    BY <1>0, <2>1, <1>17 DEF RaiseSetError, Goto, LocalOnly, Frame, Finish,
       ErrorRight, Body, Usable, KeysOf
<1>18. ASSUME NEW t \in Threads, ReturnSet(t) PROVE ErrorRight(u)'
  BY <1>0, <1>18, <1>a DEF ReturnSet, Goto, LocalOnly, Frame, Finish
<1>19. ASSUME NEW t \in Threads, RaiseNoSigningKeys(t) PROVE ErrorRight(u)'
  <2>1. call[t].data \in 1..Len(published)
    BY <1>19 DEF RaiseNoSigningKeys, HasSet, HasObject, TypeOK, Version, NoSet
  <2>2. Usable(call[t].data) /\ KeysOf(call[t].data) = {}
    BY <1>19 DEF RaiseNoSigningKeys, HasKeys, HasSet
  <2>3. \E v \in 1..Len(published) : Usable(v) /\ KeysOf(v) = {}
    BY <2>1, <2>2
  <2>4. QED
    BY <1>0, <2>3, <1>19 DEF RaiseNoSigningKeys, Goto, LocalOnly, Frame, Finish,
       ErrorRight, Body, Usable, KeysOf
<1>20. ASSUME NEW t \in Threads, ReturnKeys(t) PROVE ErrorRight(u)'
  BY <1>0, <1>20, <1>a DEF ReturnKeys, Goto, LocalOnly, Frame, Finish
<1>21. ASSUME NEW t \in Threads, ReturnMatch(t) PROVE ErrorRight(u)'
  BY <1>0, <1>21, <1>a DEF ReturnMatch, Goto, LocalOnly, Frame
<1>22. ASSUME NEW t \in Threads, Retry(t) PROVE ErrorRight(u)'
  BY <1>0, <1>22, <1>a DEF Retry, Goto, LocalOnly, Frame, FirstStep
<1>23. ASSUME NEW t \in Threads, RaiseNoMatch(t) PROVE ErrorRight(u)'
  BY <1>0, <1>23, <1>a DEF RaiseNoMatch, Goto, LocalOnly, Frame, Finish
<1>24. ASSUME NEW t \in Threads, Return(t) PROVE ErrorRight(u)'
  BY <1>0, <1>24, <1>a DEF Return, Goto, LocalOnly, Frame, Blank
<1>25. ASSUME Publish PROVE ErrorRight(u)'
  <2>1. \A v \in 1..Len(published) :
          v \in 1..Len(published') /\ published'[v] = published[v]
    BY PublishedGrows
  <2>2. QED
    BY <1>0, <2>1, <1>25 DEF Publish, ErrorRight, Body, Usable, KeysOf
<1>26. ASSUME Tick PROVE ErrorRight(u)'
  BY <1>0, <1>26, <1>a DEF Tick
<1>27. ASSUME UNCHANGED vars PROVE ErrorRight(u)'
  BY <1>0, <1>27, <1>a DEF vars
<1> QED
  BY <1>1, <1>2, <1>3, <1>4, <1>5, <1>6, <1>7, <1>8, <1>9, <1>10, <1>11, <1>12, <1>13, <1>14, <1>15, <1>16, <1>17, <1>18, <1>19, <1>20, <1>21, <1>22, <1>23, <1>24, <1>25, <1>26, <1>27 DEF Next, Running

(* An error about the document is about a document really published, not    *)
(* about the None another thread left in the cache.                         *)
THEOREM ErrorsBlameTheEndpointHolds == Spec => []ErrorsBlameTheEndpoint
<1>1. Init => Provenance /\ NullIsNone /\ ErrorsBlameTheEndpoint
  BY DEF Init, CacheInit, Provenance, NullIsNone, ErrorsBlameTheEndpoint, Blank
<1>2. TypeOK /\ CallStates /\ Provenance /\ NullIsNone
        /\ ErrorsBlameTheEndpoint /\ [Next]_vars
        => NullIsNone' /\ ErrorsBlameTheEndpoint'
  BY StepNullIsNone, StepErrors
<1>3. QED
  BY TypeCorrect, InitCallStates, StepCallStates, ProvenanceHolds, <1>1, <1>2,
     PTL DEF Spec

-----------------------------------------------------------------------------
(* JWKSClient implements KeyDirectory: every step of a thread inside a call *)
(* is a stutter of the directory, the step that ends the call is its        *)
(* answer, and the invariants above justify that answer.                    *)


Inside == {"lookup", "check", "recheck", "compare", "take", "request", "put",
           "stamp", "fetched", "parse", "store"}

(* A thread moves inside its call: the directory sees nothing.              *)
LEMMA Quiet ==
  ASSUME TypeOK, NEW t \in Threads, UNCHANGED published,
         NEW l \in Inside, pc[t] \in Inside, pc' = [pc EXCEPT ![t] = l],
         NEW c, call' = [call EXCEPT ![t] = c], QueryOf(t)' = QueryOf(t)
  PROVE  UNCHANGED Directory!vars
<1>1. \A u \in Threads : PhaseOf(u)' = PhaseOf(u)
  BY DEF PhaseOf, TypeOK, Inside
<1>2. \A u \in Threads : QueryOf(u)' = QueryOf(u)
  BY DEF QueryOf, TypeOK
<1>3. \A u \in Threads : AnswerOf(u)' = AnswerOf(u)
  BY DEF AnswerOf, TypeOK, Inside
<1>4. QED
  BY <1>1, <1>2, <1>3 DEF Directory!vars

(* A thread ends its call with an answer that is justified.                 *)
LEMMA Answered ==
  ASSUME TypeOK, NEW t \in Threads, UNCHANGED published,
         pc[t] \in Inside, pc' = [pc EXCEPT ![t] = "done"],
         NEW c, call' = [call EXCEPT ![t] = c], QueryOf(t)' = QueryOf(t),
         Directory!Justified(QueryOf(t),
                             [outcome |-> c.outcome, data |-> c.data])
  PROVE  Directory!Next
<1>1. /\ PhaseOf(t) = "asked" /\ PhaseOf(t)' = "answered"
      /\ \A u \in Threads \ {t} : PhaseOf(u)' = PhaseOf(u)
  BY DEF PhaseOf, TypeOK, Inside
<1>2. \A u \in Threads : QueryOf(u)' = QueryOf(u)
  BY DEF QueryOf, TypeOK
<1>3. /\ AnswerOf(t)' = [outcome |-> c.outcome, data |-> c.data]
      /\ \A u \in Threads \ {t} : AnswerOf(u)' = AnswerOf(u)
  BY DEF AnswerOf, TypeOK, Inside
<1>4. Directory!Answer(t)
  BY <1>1, <1>2, <1>3 DEF Directory!Answer
<1>5. QED
  BY <1>4 DEF Directory!Next

(* A call arrives.                                                          *)
LEMMA Asked ==
  ASSUME TypeOK, NEW t \in Threads, CallWithRefresh(t) \/ CallGetSigningKey(t)
  PROVE  Directory!Next
<1>1. PICK l \in Inside, q \in Directory!Queries(Len(published)) :
         /\ pc[t] = "idle" /\ pc' = [pc EXCEPT ![t] = l]
         /\ call' = [call EXCEPT ![t] = [Blank EXCEPT !.op = q.op,
                        !.kid = q.kid, !.refresh = q.refresh,
                        !.since = Len(published)]]
         /\ UNCHANGED published
         /\ q.refresh => q.op # "get_signing_key"
  <2>1. CASE CallWithRefresh(t)
    <3>1. PICK op \in {"get_jwk_set", "get_signing_keys"}, r \in BOOLEAN :
            Begin(t, op, NoKid, r, FirstStep(r))
      BY <2>1 DEF CallWithRefresh
    <3>2. [op |-> op, kid |-> NoKid, refresh |-> r, since |-> Len(published)]
            \in Directory!Queries(Len(published))
      BY DEF Directory!Queries
    <3>3. FirstStep(r) \in Inside
      BY DEF FirstStep, Inside
    <3>4. QED
      BY <3>1, <3>2, <3>3 DEF Begin, Goto, LocalOnly
  <2>2. CASE CallGetSigningKey(t)
    <3> DEFINE l == IF CacheKeys THEN "lookup" ELSE FirstStep(FALSE)
    <3>1. PICK kid \in Kids : Begin(t, "get_signing_key", kid, FALSE, l)
      BY <2>2 DEF CallGetSigningKey
    <3>2. [op |-> "get_signing_key", kid |-> kid, refresh |-> FALSE,
           since |-> Len(published)] \in Directory!Queries(Len(published))
      BY DEF Directory!Queries
    <3>3. l \in Inside
      BY DEF FirstStep, Inside
    <3>4. QED
      BY <3>1, <3>2, <3>3 DEF Begin, Goto, LocalOnly
  <2>3. QED BY <2>1, <2>2
<1>2. q = [op |-> q.op, kid |-> q.kid, refresh |-> q.refresh,
           since |-> Len(published)]
  BY DEF Directory!Queries
<1>3. /\ PhaseOf(t) = "idle" /\ PhaseOf(t)' = "asked"
      /\ \A u \in Threads \ {t} : PhaseOf(u)' = PhaseOf(u)
  BY <1>1 DEF PhaseOf, TypeOK, Inside
<1>4. /\ QueryOf(t)' = q
      /\ \A u \in Threads \ {t} : QueryOf(u)' = QueryOf(u)
  <2>1. q.refresh /\ q.op # "get_signing_key" <=> q.refresh
    BY <1>1
  <2>2. q.refresh \in BOOLEAN
    BY DEF Directory!Queries
  <2>3. QED
    BY <1>1, <1>2, <2>1, <2>2 DEF QueryOf, TypeOK, Blank
<1>5. \A u \in Threads : AnswerOf(u)' = AnswerOf(u)
  BY <1>1 DEF AnswerOf, TypeOK, Inside
<1>6. Directory!Ask(t)
  BY <1>1, <1>3, <1>4, <1>5 DEF Directory!Ask
<1>7. QED
  BY <1>6 DEF Directory!Next

(* The caller has its answer.                                               *)
LEMMA Forgotten ==
  ASSUME TypeOK, NEW t \in Threads, Return(t)
  PROVE  Directory!Next
<1>1. /\ PhaseOf(t) = "answered" /\ PhaseOf(t)' = "idle"
      /\ \A u \in Threads \ {t} : PhaseOf(u)' = PhaseOf(u)
  BY DEF PhaseOf, TypeOK, Return, Goto
<1>2. /\ QueryOf(t)' = Directory!Nothing
      /\ \A u \in Threads \ {t} : QueryOf(u)' = QueryOf(u)
  BY DEF QueryOf, TypeOK, Return, Blank, Directory!Nothing
<1>3. /\ AnswerOf(t)' = Directory!Pending
      /\ \A u \in Threads \ {t} : AnswerOf(u)' = AnswerOf(u)
  BY DEF AnswerOf, TypeOK, Return, Goto, Directory!Pending
<1>4. Directory!Forget(t)
  BY <1>1, <1>2, <1>3 DEF Directory!Forget, Return, LocalOnly
<1>5. QED
  BY <1>4 DEF Directory!Next

(* What the invariants say, collected.                                      *)
DirectoryInv ==
    /\ TypeOK
    /\ CallStates
    /\ Provenance
    /\ FetchedDuringCall
    /\ NotFoundIsCurrent
    /\ NullIsNone
    /\ ErrorsBlameTheEndpoint

-----------------------------------------------------------------------------
(* The steps that end a call.                                               *)

LEMMA AnswerLruHit ==
  ASSUME DirectoryInv, NEW t \in Threads, LruHit(t)
  PROVE  Directory!Next
<1>1. PICK i \in EntriesFor(call[t].kid) :
        call' = [call EXCEPT ![t].data = lru[i].ver, ![t].outcome = "cached_key"]
  BY DEF LruHit
<1> DEFINE c == [call[t] EXCEPT !.data = lru[i].ver, !.outcome = "cached_key"]
<1>2. HoldsKey(lru[i].ver, call[t].kid)
  BY DEF DirectoryInv, Provenance, EntriesFor
<1>3. call[t] \in Frame
  BY DEF DirectoryInv, TypeOK
<1>4. call' = [call EXCEPT ![t] = c] /\ c.outcome = "cached_key"
      /\ c.data = lru[i].ver
  BY <1>1, <1>3 DEF DirectoryInv, TypeOK, Frame
<1>5. Directory!Justified(QueryOf(t), [outcome |-> c.outcome, data |-> c.data])
  BY <1>2, <1>4 DEF Directory!Justified, Directory!HoldsKey, Directory!Versions,
       QueryOf, HoldsKey, Usable, KeysOf, Body
<1>6. QueryOf(t)' = QueryOf(t)
  BY <1>4, <1>3 DEF QueryOf, Frame, DirectoryInv, TypeOK
<1>7. QED
  BY <1>4, <1>5, <1>6, Answered DEF DirectoryInv, LruHit, Goto, Inside

LEMMA AnswerLruStore ==
  ASSUME DirectoryInv, NEW t \in Threads, LruStore(t)
  PROVE  Directory!Next
<1> DEFINE c == call[t]
<1>1. call' = [call EXCEPT ![t] = c]
  BY DEF LruStore, DirectoryInv, TypeOK
<1>2. c.op = "get_signing_key" /\ c.outcome = "ok"
  BY DEF LruStore, DirectoryInv, CallStates, CallState
<1>3. HoldsKey(c.data, c.kid)
  BY <1>2 DEF DirectoryInv, Provenance
<1>4. Directory!Justified(QueryOf(t), [outcome |-> c.outcome, data |-> c.data])
  BY <1>2, <1>3 DEF Directory!Justified, Directory!Delivers, Directory!HoldsKey,
       Directory!Versions, QueryOf, HoldsKey, Usable, KeysOf, Body
<1>5. QueryOf(t)' = QueryOf(t)
  BY DEF QueryOf, LruStore
<1>6. QED
  BY <1>1, <1>4, <1>5, Answered DEF DirectoryInv, LruStore, Goto, Inside

(* An exception: what is left to show is that its outcome is justified.     *)
LEMMA Raised ==
  ASSUME DirectoryInv, NEW t \in Threads, NEW r, Finish(t, r), LocalOnly,
         pc[t] \in Inside,
         Directory!Justified(QueryOf(t), [outcome |-> r, data |-> call[t].data])
  PROVE  Directory!Next
<1> DEFINE c == [call[t] EXCEPT !.outcome = r]
<1>1. call[t] \in Frame
  BY DEF DirectoryInv, TypeOK
<1>2. call' = [call EXCEPT ![t] = c] /\ c.outcome = r /\ c.data = call[t].data
  BY <1>1 DEF Finish, DirectoryInv, TypeOK, Frame
<1>3. QueryOf(t)' = QueryOf(t)
  BY <1>1, <1>2 DEF QueryOf, Frame, DirectoryInv, TypeOK
<1>4. QED
  BY <1>2, <1>3, Answered DEF DirectoryInv, Finish, Goto, LocalOnly

LEMMA AnswerFetchError ==
  ASSUME DirectoryInv, NEW t \in Threads, RaiseFetchError(t)
  PROVE  Directory!Next
<1>1. call[t].failure \in Failures
  BY DEF RaiseFetchError, DirectoryInv, TypeOK, Frame
<1>2. Directory!Justified(QueryOf(t), [outcome |-> call[t].failure,
                                       data |-> call[t].data])
  BY <1>1 DEF Directory!Justified, Failures
<1>3. QED
  BY <1>2, Raised DEF RaiseFetchError, Inside

LEMMA AnswerNotObject ==
  ASSUME DirectoryInv, NEW t \in Threads, RaiseNotObject(t)
  PROVE  Directory!Next
<1>1. \E v \in 1..Len(published) : Body(v).shape \in {"null", "notobject"}
  <2>1. CASE call[t].data = NoSet
    BY <2>1 DEF RaiseNotObject, DirectoryInv, CallStates, CallState, NullIsNone
  <2>2. CASE call[t].data # NoSet
    BY <2>2 DEF RaiseNotObject, HasObject, DirectoryInv, TypeOK, Version, NoSet
  <2>3. QED BY <2>1, <2>2
<1>2. Directory!Justified(QueryOf(t), [outcome |-> "not_object",
                                       data |-> call[t].data])
  BY <1>1 DEF Directory!Justified, Directory!Versions, Body
<1>3. QED
  BY <1>2, Raised DEF RaiseNotObject, Inside

(* What "parse" finds in the document it holds.                             *)
LEMMA Held ==
  ASSUME DirectoryInv, NEW t \in Threads, HasObject(t)
  PROVE  /\ call[t].data \in 1..Len(published)
         /\ published[call[t].data].shape \in {"unusable", "set"}
<1>1. call[t].data \in 1..Len(published)
  BY DEF HasObject, DirectoryInv, TypeOK, Version, NoSet
<1>2. Body(call[t].data).shape # "null"
  BY DEF HasObject, DirectoryInv, NullIsNone
<1>3. published[call[t].data] \in Docs
  BY <1>1 DEF DirectoryInv, TypeOK
<1>4. QED
  BY <1>1, <1>2, <1>3, ClientAssumption DEF HasObject, Body, Shapes

LEMMA AnswerSetError ==
  ASSUME DirectoryInv, NEW t \in Threads, RaiseSetError(t)
  PROVE  Directory!Next
<1>1. Directory!Justified(QueryOf(t), [outcome |-> "set_error",
                                       data |-> call[t].data])
  BY Held DEF Directory!Justified, Directory!Versions, RaiseSetError, HasSet,
       Usable, Body
<1>2. QED
  BY <1>1, Raised DEF RaiseSetError, Inside

LEMMA AnswerNoSigningKeys ==
  ASSUME DirectoryInv, NEW t \in Threads, RaiseNoSigningKeys(t)
  PROVE  Directory!Next
<1>1. /\ call[t].data \in 1..Len(published)
      /\ published[call[t].data].shape = "set"
      /\ published[call[t].data].keys = {}
  BY Held DEF RaiseNoSigningKeys, HasKeys, HasSet, Usable, KeysOf, Body
<1>2. Directory!Justified(QueryOf(t), [outcome |-> "no_signing_keys",
                                       data |-> call[t].data])
  BY <1>1 DEF Directory!Justified, Directory!Versions, RaiseNoSigningKeys,
       QueryOf
<1>3. QED
  BY <1>2, Raised DEF RaiseNoSigningKeys, Inside

(* A refresh answers from what it fetched.                                  *)
LEMMA Refreshed ==
  ASSUME DirectoryInv, NEW t \in Threads, pc[t] = "parse", call[t].refresh,
         call[t].data # NoSet
  PROVE  call[t].since <= call[t].data
BY DEF DirectoryInv, CallStates, CallState, FetchedDuringCall, Fetched

LEMMA AnswerSetOrKeys ==
  ASSUME DirectoryInv, NEW t \in Threads, ReturnSet(t) \/ ReturnKeys(t)
  PROVE  Directory!Next
<1>1. /\ pc[t] = "parse" /\ HasSet(t) /\ Finish(t, "ok") /\ LocalOnly
      /\ call[t].op \in {"get_jwk_set", "get_signing_keys"}
      /\ call[t].op = "get_signing_keys" => HasKeys(t)
  BY DEF ReturnSet, ReturnKeys, HasKeys
<1>2. /\ call[t].data \in 1..Len(published)
      /\ published[call[t].data].shape = "set"
      /\ call[t].op = "get_signing_keys" => published[call[t].data].keys # {}
  BY <1>1, Held DEF HasKeys, HasSet, Usable, KeysOf, Body
<1>3. call[t].refresh => call[t].since <= call[t].data
  BY <1>1, Refreshed DEF HasSet, HasObject
<1>4. Directory!Delivers(QueryOf(t), call[t].data)
  BY <1>1, <1>2, <1>3 DEF Directory!Delivers, Directory!Versions,
       Directory!Since, QueryOf
<1>5. Directory!Justified(QueryOf(t), [outcome |-> "ok", data |-> call[t].data])
  BY <1>4 DEF Directory!Justified
<1>6. QED
  BY <1>1, <1>5, Raised DEF Inside

(* The match is found: the call ends here, or after the store in the cache. *)
LEMMA AnswerMatch ==
  ASSUME DirectoryInv, NEW t \in Threads, ReturnMatch(t)
  PROVE  Directory!Next \/ UNCHANGED Directory!vars
<1> DEFINE c == [call[t] EXCEPT !.outcome = "ok"]
<1>1. call[t] \in Frame
  BY DEF DirectoryInv, TypeOK
<1>2. call' = [call EXCEPT ![t] = c] /\ c.outcome = "ok" /\ c.data = call[t].data
  BY <1>1 DEF ReturnMatch, DirectoryInv, TypeOK, Frame
<1>3. QueryOf(t)' = QueryOf(t)
  BY <1>1, <1>2 DEF QueryOf, Frame, DirectoryInv, TypeOK
<1>4. CASE CacheKeys
  BY <1>2, <1>3, <1>4, Quiet DEF ReturnMatch, Goto, LocalOnly, Inside, DirectoryInv
<1>5. CASE ~CacheKeys
  <2>1. /\ call[t].data \in 1..Len(published)
        /\ published[call[t].data].shape = "set"
        /\ call[t].kid \in published[call[t].data].keys
    BY Held DEF ReturnMatch, HasKeys, HasSet, Usable, Matches, KeysOf, Body
  <2>2. Directory!Delivers(QueryOf(t), call[t].data)
    BY <2>1 DEF Directory!Delivers, Directory!Versions, Directory!HoldsKey,
         QueryOf, ReturnMatch
  <2>3. Directory!Justified(QueryOf(t), [outcome |-> c.outcome, data |-> c.data])
    BY <1>2, <2>2 DEF Directory!Justified
  <2>4. QED
    BY <1>2, <1>3, <1>5, <2>3, Answered
    DEF ReturnMatch, Goto, LocalOnly, Inside, DirectoryInv
<1>6. QED BY <1>4, <1>5

LEMMA AnswerNoMatch ==
  ASSUME DirectoryInv, NEW t \in Threads, RaiseNoMatch(t)
  PROVE  Directory!Next
<1>1. /\ call[t].data \in 1..Len(published)
      /\ call[t].kid \notin published[call[t].data].keys
  BY Held DEF RaiseNoMatch, HasKeys, HasSet, Matches, KeysOf, Body
<1>2. call[t].since <= call[t].data
  BY Refreshed DEF RaiseNoMatch, HasKeys, HasSet, HasObject
<1>3. Directory!Justified(QueryOf(t), [outcome |-> "no_match",
                                       data |-> call[t].data])
  BY <1>1, <1>2 DEF Directory!Justified, Directory!Since, Directory!Versions,
       Directory!HoldsKey, QueryOf, RaiseNoMatch
<1>4. QED
  BY <1>3, Raised DEF RaiseNoMatch, Inside

-----------------------------------------------------------------------------
(* The steps inside a call.                                                 *)

LEMMA StepInside ==
  ASSUME DirectoryInv, NEW t \in Threads,
         \/ LruMiss(t) \/ CacheCheck(t) \/ CacheRecheck(t) \/ CacheCompare(t)
         \/ CacheTake(t) \/ Answer(t) \/ FailExchange(t)
         \/ StoreSet(t) \/ StoreStamp(t) \/ DeliverFetched(t) \/ Retry(t)
  PROVE  UNCHANGED Directory!vars
<1>1. PICK l \in Inside : pc[t] \in Inside /\ pc' = [pc EXCEPT ![t] = l]
  BY DEF LruMiss, CacheCheck, CacheRecheck, CacheCompare, CacheTake, Answer,
       FailExchange, StoreSet, StoreStamp, DeliverFetched, Retry, Goto,
       FirstStep, AfterExchange, Inside
<1>2. UNCHANGED published
  BY DEF LruMiss, CacheCheck, CacheRecheck, CacheCompare, CacheTake, Answer,
       FailExchange, StoreSet, StoreStamp, DeliverFetched, Retry, LocalOnly
<1>3. /\ call' = [call EXCEPT ![t] = call'[t]]
      /\ QueryOf(t)' = QueryOf(t)
  <2>0. call \in [Threads -> Frame] /\ call[t] \in Frame
    BY DEF DirectoryInv, TypeOK
  <2>1. CASE LruMiss(t)
    BY <2>0, <2>1 DEF LruMiss, QueryOf, Frame
  <2>2. CASE CacheCheck(t)
    BY <2>0, <2>2 DEF CacheCheck, QueryOf, Frame
  <2>3. CASE CacheRecheck(t)
    BY <2>0, <2>3 DEF CacheRecheck, QueryOf, Frame
  <2>4. CASE CacheCompare(t)
    BY <2>0, <2>4 DEF CacheCompare, QueryOf, Frame
  <2>5. CASE CacheTake(t)
    BY <2>0, <2>5 DEF CacheTake, QueryOf, Frame
  <2>6. CASE Answer(t)
    BY <2>0, <2>6 DEF Answer, QueryOf, Frame
  <2>7. CASE FailExchange(t)
    <3>1. PICK failure \in Failures :
            call' = [call EXCEPT ![t].data = NoSet, ![t].failure = failure,
                                 ![t].fetches = Sent(t)]
      BY <2>7 DEF FailExchange
    <3>2. QED
      BY <2>0, <3>1 DEF QueryOf, Frame
  <2>8. CASE StoreSet(t)
    BY <2>0, <2>8 DEF StoreSet, QueryOf, Frame
  <2>9. CASE StoreStamp(t)
    BY <2>0, <2>9 DEF StoreStamp, QueryOf, Frame
  <2>10. CASE DeliverFetched(t)
    BY <2>0, <2>10 DEF DeliverFetched, QueryOf, Frame
  <2>11. CASE Retry(t)
    BY <2>0, <2>11 DEF Retry, QueryOf, Frame
  <2>12. QED BY <2>1, <2>2, <2>3, <2>4, <2>5, <2>6, <2>7, <2>8, <2>9, <2>10, <2>11
<1>4. QED
  BY <1>1, <1>2, <1>3, Quiet DEF DirectoryInv

(* The world moves on.                                                      *)
LEMMA StepWorld ==
  ASSUME DirectoryInv, Publish \/ Tick \/ UNCHANGED vars
  PROVE  Directory!Next \/ UNCHANGED Directory!vars
<1>1. UNCHANGED <<pc, call>>
  BY DEF Publish, Tick, vars
<1>2. \A u \in Threads : /\ PhaseOf(u)' = PhaseOf(u)
                         /\ QueryOf(u)' = QueryOf(u)
                         /\ AnswerOf(u)' = AnswerOf(u)
  BY <1>1 DEF PhaseOf, QueryOf, AnswerOf
<1>3. CASE Publish
  BY <1>2, <1>3 DEF Publish, Directory!Next, Directory!Publish
<1>4. CASE UNCHANGED published
  BY <1>2, <1>4 DEF Directory!vars
<1>5. QED
  BY <1>3, <1>4 DEF Tick, vars

LEMMA StepDirectory ==
  DirectoryInv /\ [Next]_vars => [Directory!Next]_Directory!vars
<1> SUFFICES ASSUME DirectoryInv, [Next]_vars
             PROVE  Directory!Next \/ UNCHANGED Directory!vars
  OBVIOUS
<1>1. ASSUME NEW t \in Threads, CallWithRefresh(t) \/ CallGetSigningKey(t)
      PROVE  Directory!Next
  BY <1>1, Asked DEF DirectoryInv
<1>2. ASSUME NEW t \in Threads, Running(t)
      PROVE  Directory!Next \/ UNCHANGED Directory!vars
  BY <1>2, AnswerLruHit, AnswerLruStore, AnswerFetchError, AnswerNotObject,
     AnswerSetError, AnswerNoSigningKeys, AnswerSetOrKeys, AnswerMatch,
     AnswerNoMatch, StepInside, Forgotten DEF Running, DirectoryInv
<1>3. QED
  BY <1>1, <1>2, StepWorld DEF Next

LEMMA InitDirectory == Init => Directory!Init
<1> SUFFICES ASSUME Init PROVE Directory!Init
  OBVIOUS
<1>1. \A t \in Threads : pc[t] = "idle" /\ call[t] = Blank
  BY DEF Init
<1>2. \A t \in Threads : /\ PhaseOf(t) = "idle"
                         /\ QueryOf(t) = Directory!Nothing
                         /\ AnswerOf(t) = Directory!Pending
  <2> TAKE t \in Threads
  <2>1. PhaseOf(t) = "idle" /\ AnswerOf(t) = Directory!Pending
    BY <1>1 DEF PhaseOf, AnswerOf, Directory!Pending
  <2>2. /\ call[t].op = "none" /\ call[t].kid = NoKid
        /\ call[t].refresh = FALSE /\ call[t].since = 0
    BY <1>1 DEF Blank
  <2>3. (call[t].refresh /\ call[t].op # "get_signing_key") = FALSE
    BY <2>2
  <2>4. QueryOf(t) = Directory!Nothing
    BY <2>2, <2>3 DEF QueryOf, Directory!Nothing
  <2>5. QED BY <2>1, <2>4
<1>3. QED
  BY <1>2 DEF Init, Directory!Init

(* The client is a directory of the endpoint's documents, whatever its      *)
(* caches, its retries and the interleaving of its threads: what            *)
(* get_jwk_set, get_signing_keys and get_signing_key return or raise.       *)
THEOREM DirectoryImplemented == Spec => ImplementsDirectory
<1>1. Init => Provenance /\ NullIsNone /\ ErrorsBlameTheEndpoint
  BY DEF Init, CacheInit, Provenance, NullIsNone, ErrorsBlameTheEndpoint, Blank
<1>2. TypeOK /\ CallStates /\ Provenance /\ NullIsNone
        /\ ErrorsBlameTheEndpoint /\ [Next]_vars => NullIsNone'
  BY StepNullIsNone
<1>3. TypeOK /\ CallStates /\ FetchedDuringCall /\ [Next]_vars
        => FetchedDuringCall'
  BY StepFetchedDuringCall
<1>4. Spec => []DirectoryInv
  BY TypeCorrect, InitCallStates, StepCallStates, InitReports, ProvenanceHolds,
     NotFoundIsCurrentHolds, ErrorsBlameTheEndpointHolds, <1>1, <1>2, <1>3, PTL
  DEF Spec, DirectoryInv
<1>5. QED
  BY <1>4, InitDirectory, StepDirectory, PTL
  DEF Spec, ImplementsDirectory, Directory!Spec

-----------------------------------------------------------------------------
(* One thread has the cache to itself: between the two stores of its put()  *)
(* nobody looks, and nobody stores between the loads of its get().  The     *)
(* set it finds is as old as the timestamp says.  (Two threads are enough   *)
(* to make a stale set fresh.)                                              *)

AloneInv(t) ==
    /\ pc[t] = "compare" => jwkSet # NoSet
    /\ pc[t] = "stamp" => jwkSet = call[t].data
    /\ jwkSet # NoSet /\ pc[t] # "stamp" => held = age

\* The steps that leave the cache and its clock alone.
Elsewhere(t) ==
    /\ UNCHANGED <<cacheVars, held>>
    /\ pc[t] # "stamp" /\ pc'[t] \notin {"compare", "stamp"}

LEMMA StepElsewhere ==
  ASSUME TypeOK, NEW t \in Threads,
         \/ CallWithRefresh(t) \/ CallGetSigningKey(t)
         \/ LruHit(t) \/ LruMiss(t) \/ LruStore(t)
         \/ CacheCheck(t) \/ CacheCompare(t) \/ CacheTake(t)
         \/ Answer(t) \/ FailExchange(t) \/ RaiseFetchError(t)
         \/ DeliverFetched(t) \/ RaiseNotObject(t) \/ RaiseSetError(t)
         \/ ReturnSet(t) \/ RaiseNoSigningKeys(t) \/ ReturnKeys(t)
         \/ ReturnMatch(t) \/ Retry(t) \/ RaiseNoMatch(t) \/ Return(t)
  PROVE  Elsewhere(t)
<1> USE DEF TypeOK, Elsewhere, Goto, Finish, LocalOnly
<1>1. \A refresh : FirstStep(refresh) \in {"check", "request"}
  BY DEF FirstStep
<1>2. AfterExchange \in {"put", "fetched"}
  BY DEF AfterExchange
<1>3. CASE CallWithRefresh(t) \/ CallGetSigningKey(t)
  BY <1>1, <1>3 DEF CallWithRefresh, CallGetSigningKey, Begin
<1>4. CASE LruHit(t) \/ LruMiss(t) \/ LruStore(t)
  BY <1>1, <1>4 DEF LruHit, LruMiss, LruStore
<1>5. CASE CacheCheck(t) \/ CacheCompare(t) \/ CacheTake(t)
  BY <1>5 DEF CacheCheck, CacheCompare, CacheTake
<1>6. CASE Answer(t) \/ FailExchange(t)
  BY <1>2, <1>6 DEF Answer, FailExchange
<1>7. CASE RaiseFetchError(t) \/ DeliverFetched(t) \/ RaiseNotObject(t)
           \/ RaiseSetError(t) \/ ReturnSet(t) \/ RaiseNoSigningKeys(t)
           \/ ReturnKeys(t) \/ ReturnMatch(t)
  BY <1>7 DEF RaiseFetchError, DeliverFetched, RaiseNotObject, RaiseSetError,
     ReturnSet, RaiseNoSigningKeys, ReturnKeys, ReturnMatch
<1>8. CASE Retry(t) \/ RaiseNoMatch(t) \/ Return(t)
  BY <1>1, <1>8 DEF Retry, RaiseNoMatch, Return
<1> QED
  BY <1>3, <1>4, <1>5, <1>6, <1>7, <1>8

OneThread ==
    /\ \E t : Threads = {t}
    /\ \A t \in Threads : AloneInv(t)

LEMMA StepAlone == TypeOK /\ OneThread /\ [Next]_vars => OneThread'
<1> SUFFICES ASSUME TypeOK, NEW t, Threads = {t}, AloneInv(t), [Next]_vars
             PROVE  AloneInv(t)'
  BY DEF OneThread
<1>1. writer = t /\ t \in Threads
  BY DEF TypeOK
<1>2. CASE Elsewhere(t)
  BY <1>2 DEF Elsewhere, AloneInv, cacheVars
<1>3. CASE CacheRecheck(t)
  <2>1. /\ pc[t] = "recheck" /\ UNCHANGED <<cacheVars, held>>
        /\ pc'[t] = IF jwkSet = NoSet THEN "take" ELSE "compare"
    BY <1>1, <1>3 DEF CacheRecheck, Goto, LocalOnly, TypeOK
  <2> QED
    BY <2>1 DEF AloneInv, cacheVars
<1>4. CASE StoreSet(t)
  <2>1. pc'[t] = "stamp" /\ jwkSet' = call[t].data /\ call' = call
    BY <1>1, <1>4 DEF StoreSet, PutSet, Goto, TypeOK
  <2> QED
    BY <2>1 DEF AloneInv
<1>5. CASE StoreStamp(t)
  <2>1. /\ pc[t] = "stamp" /\ pc'[t] = "fetched" /\ jwkSet' = jwkSet
        /\ held' = 0 /\ (call[t].data # NoSet => age' = 0)
    BY <1>1, <1>5 DEF StoreStamp, PutStamp, Goto, TypeOK
  <2> QED
    BY <2>1 DEF AloneInv
<1>6. CASE Publish
  BY <1>6 DEF Publish, AloneInv, cacheVars
<1>7. CASE Tick
  <2>1. /\ jwkSet' = jwkSet /\ pc' = pc /\ call' = call
        /\ held' = Older(held) /\ age' = Older(age)
    BY <1>7 DEF Tick, CacheTick
  <2> QED
    BY <2>1 DEF AloneInv
<1>8. CASE UNCHANGED vars
  BY <1>8 DEF vars, AloneInv, cacheVars
<1>9. CASE \E u \in Threads :
             CallWithRefresh(u) \/ CallGetSigningKey(u) \/ Running(u)
  <2>1. CallWithRefresh(t) \/ CallGetSigningKey(t) \/ Running(t)
    BY <1>9
  <2> QED
    BY <1>1, <1>2, <1>3, <1>4, <1>5, <2>1, StepElsewhere DEF Running
<1> QED
  BY <1>6, <1>7, <1>8, <1>9 DEF Next

(* With one thread, for any lifespan and any document: the set get() finds  *)
(* fresh was stored no longer than lifespan ago.                            *)
THEOREM ServedWithinLifespanAlone ==
  (\E t : Threads = {t}) /\ Spec => ServedWithinLifespan
<1>1. (\E t : Threads = {t}) /\ Init => OneThread
  <2> SUFFICES ASSUME NEW t, Threads = {t}, Init PROVE AloneInv(t)
    BY DEF OneThread
  <2>1. pc[t] = "idle" /\ jwkSet = NoSet
    BY DEF Init, CacheInit
  <2> QED
    BY <2>1 DEF AloneInv
<1>2. TypeOK /\ OneThread /\ [Next]_vars =>
        [\A t \in Threads :
            pc[t] = "compare" /\ pc'[t] = "take" => held <= Lifespan]_vars
  <2> SUFFICES ASSUME TypeOK, Next, NEW t, Threads = {t}, AloneInv(t),
                      pc[t] = "compare", pc'[t] = "take"
               PROVE  held <= Lifespan
    BY DEF OneThread
  <2>1. age \in Nat /\ held \in Nat /\ Lifespan \in Nat
    BY LifespanAssumption DEF TypeOK, Horizon
  <2>2. CacheCompare(t)
    <3>1. ~Publish /\ ~Tick
      BY DEF Publish, Tick
    <3>2. CallWithRefresh(t) \/ CallGetSigningKey(t) \/ Running(t)
      BY <3>1 DEF Next
    <3> QED
      BY <3>2 DEF Running, CallWithRefresh, CallGetSigningKey, Begin, LruHit,
         LruMiss, LruStore, CacheCheck, CacheRecheck, CacheTake, Answer,
         FailExchange, StoreSet, StoreStamp, RaiseFetchError, DeliverFetched,
         RaiseNotObject, RaiseSetError, ReturnSet, RaiseNoSigningKeys,
         ReturnKeys, ReturnMatch, Retry, RaiseNoMatch, Return
  <2>3. ~Expired
    BY <2>2 DEF CacheCompare, Goto, TypeOK
  <2>4. held = age
    BY DEF AloneInv
  <2> QED
    BY <2>1, <2>3, <2>4 DEF Expired
<1> QED
  BY <1>1, <1>2, StepAlone, TypeCorrect, PTL DEF Spec, ServedWithinLifespan
=============================================================================
