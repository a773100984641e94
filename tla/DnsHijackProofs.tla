-------------------------- MODULE DnsHijackProofs ---------------------------
(***************************************************************************)
(* Proofs about DnsHijack for any clients, servers and bounds.  All of its *)
(* properties rest on counting: how many entries of the array lie in a set *)
(* of mappings, and what an append and the removal that moves the last     *)
(* entry into the gap do to that number.                                   *)
(***************************************************************************)
EXTENDS DnsHijack, FiniteSetTheorems, SequenceTheorems, TLAPS

\* Indices of the entries of q that lie in E.
Where(q, E) == {i \in 1 .. Len(q) : q[i] \in E}

\* The mappings of client c, and the one mapping from c to s.
OfClient(c)   == {e \in Entry : e.client = c}
Mapping(c, s) == {[client |-> c, dst |-> s]}

-----------------------------------------------------------------------------
(* Counting entries.                                                       *)

\* A set of indices is finite.
LEMMA WhereFinite ==
  ASSUME NEW q \in Seq(Entry), NEW E
  PROVE  IsFiniteSet(Where(q, E)) /\ Cardinality(Where(q, E)) \in Nat
<1>1. Len(q) \in Nat
  BY LenProperties
<1>2. IsFiniteSet(1 .. Len(q)) /\ Where(q, E) \in SUBSET (1 .. Len(q))
  BY <1>1, FS_Interval DEF Where
<1> QED
  BY <1>2, FS_Subset, FS_CardinalityType

\* rewrite_query: an appended mapping is counted once, where it belongs.
LEMMA AppendCount ==
  ASSUME NEW q \in Seq(Entry), NEW e \in Entry, NEW E
  PROVE  Cardinality(Where(Append(q, e), E))
           = Cardinality(Where(q, E)) + (IF e \in E THEN 1 ELSE 0)
<1> DEFINE n == Len(q)
<1>1. n \in Nat /\ n + 1 \notin Where(q, E)
  BY LenProperties DEF Where
<1>2. Where(Append(q, e), E)
        = IF e \in E THEN Where(q, E) \cup {n + 1} ELSE Where(q, E)
  BY <1>1, AppendProperties DEF Where
<1>3. IsFiniteSet(Where(q, E)) /\ Cardinality(Where(q, E)) \in Nat
  BY WhereFinite
<1>4. Cardinality(Where(q, E) \cup {n + 1}) = Cardinality(Where(q, E)) + 1
  BY <1>1, <1>3, FS_AddElement
<1> QED
  BY <1>2, <1>3, <1>4

\* The array after the removal of entry i, as a sequence.
Removed(q, i) ==
  [j \in 1 .. Len(q) - 1 |-> IF j = i THEN q[Len(q)] ELSE q[j]]

\* The array after a swap-removal is an array, shorter by one.
LEMMA RemovedIsSeq ==
  ASSUME NEW q \in Seq(Entry), NEW i \in 1 .. Len(q)
  PROVE  Removed(q, i) \in Seq(Entry) /\ Len(Removed(q, i)) = Len(q) - 1
<1>1. Len(q) - 1 \in Nat /\ \A j \in 1 .. Len(q) : q[j] \in Entry
  BY LenProperties, ElementOfSeq
<1>2. Removed(q, i) \in [1 .. Len(q) - 1 -> Entry]
  BY <1>1 DEF Removed
<1>3. Removed(q, i) \in Seq(Entry)
  BY <1>1, <1>2, SeqDef
<1> QED
  BY <1>1, <1>2, <1>3, LenProperties

\* rewrite_response: moving the last entry into the gap takes away the removed
\* mapping and no other.
LEMMA RemovedCount ==
  ASSUME NEW q \in Seq(Entry), NEW i \in 1 .. Len(q), NEW E
  PROVE  Cardinality(Where(Removed(q, i), E))
           = Cardinality(Where(q, E)) - (IF q[i] \in E THEN 1 ELSE 0)
<1> DEFINE n == Len(q)
           W == Where(q, E)
<1>1. n \in Nat /\ n > 0 /\ Len(Removed(q, i)) = n - 1
  BY LenProperties, RemovedIsSeq
<1>e. Where(Removed(q, i), E)
        = {j \in 1 .. n - 1 : (IF j = i THEN q[n] ELSE q[j]) \in E}
  BY <1>1 DEF Where, Removed
<1>w. /\ IsFiniteSet(W) /\ Cardinality(W) \in Nat
      /\ \A j \in 1 .. n : j \in W <=> q[j] \in E
  BY WhereFinite DEF Where
<1>r. \A j \in 1 .. n :
        /\ IsFiniteSet(W \ {j})
        /\ Cardinality(W \ {j}) = Cardinality(W) - (IF q[j] \in E THEN 1 ELSE 0)
  BY <1>w, FS_RemoveElement
<1>2. CASE q[n] \notin E
  <2>1. Where(Removed(q, i), E) = W \ {i}
    BY <1>1, <1>2 DEF Where, Removed
  <2> QED
    BY <2>1, <1>r
<1>3. CASE q[n] \in E /\ i = n
  <2>1. Where(Removed(q, i), E) = W \ {n}
    BY <1>1, <1>3, <1>e DEF Where
  <2> QED
    BY <1>3, <2>1, <1>r
<1>4. CASE q[n] \in E /\ i # n
  <2>1. Where(Removed(q, i), E) = (W \ {n}) \cup {i}
    BY <1>1, <1>4 DEF Where, Removed
  <2>2. IsFiniteSet(W \ {n}) /\ Cardinality(W \ {n}) = Cardinality(W) - 1
    BY <1>1, <1>4, <1>r
  <2>3. i \in W \ {n} <=> q[i] \in E
    BY <1>4, <1>w
  <2>4. Cardinality((W \ {n}) \cup {i})
          = IF i \in W \ {n} THEN Cardinality(W \ {n}) ELSE Cardinality(W \ {n}) + 1
    BY <2>2, FS_AddElement
  <2> QED
    BY <2>1, <2>2, <2>3, <2>4, <1>w
<1> QED
  BY <1>2, <1>3, <1>4

\* A set of indices that is not empty has a last one: the intervals above its
\* members are finite, and one of them contains no other.
LEMMA LastExists ==
  ASSUME NEW n \in Nat, NEW S \in SUBSET (1 .. n), S # {}
  PROVE  \E i \in S : \A j \in S : j <= i
<1> DEFINE Above == {i + 1 .. n : i \in S}
<1>1. Above \subseteq FiniteSubsetsOf(1 .. n) /\ Above # {}
  <2>1. \A i \in S : i + 1 .. n \subseteq 1 .. n /\ IsFiniteSet(i + 1 .. n)
    BY FS_Interval
  <2> QED
    BY <2>1 DEF FiniteSubsetsOf
<1>2. \E A \in Above : \A B \in Above :
        ~(<<B, A>> \in StrictSubsetOrdering(1 .. n))
  BY <1>1, FS_StrictSubsetOrderingWellFounded, WFMin, Zenon
<1>3. PICK i \in S : \A B \in Above :
        ~(<<B, i + 1 .. n>> \in StrictSubsetOrdering(1 .. n))
  BY <1>2
<1>4. ASSUME NEW j \in S, j > i PROVE FALSE
  <2>1. /\ j + 1 .. n \subseteq i + 1 .. n
        /\ j \in i + 1 .. n /\ j \notin j + 1 .. n
    BY <1>4
  <2>2. <<j + 1 .. n, i + 1 .. n>> \in StrictSubsetOrdering(1 .. n)
    BY <2>1, <1>4 DEF StrictSubsetOrdering
  <2> QED
    BY <1>3, <2>2
<1> QED
  BY <1>4

-----------------------------------------------------------------------------
(* The two functions, in terms of counting.                                *)

\* What Held counts: the matches of the loop in rewrite_response.
LEMMA ClientCount ==
  ASSUME NEW q \in Seq(Entry), NEW c \in Clients
  PROVE  {i \in 1 .. Len(q) : q[i].client = c} = Where(q, OfClient(c))
<1>1. \A i \in 1 .. Len(q) : q[i] \in Entry
  BY ElementOfSeq
<1> QED
  BY <1>1 DEF Where, OfClient

\* What Table counts.
LEMMA MappingCount ==
  ASSUME NEW q, NEW c, NEW s
  PROVE  {i \in 1 .. Len(q) : q[i] = [client |-> c, dst |-> s]}
           = Where(q, Mapping(c, s))
BY DEF Where, Mapping

\* usque_dns_hijack_rewrite_response either finds no mapping of c and changes
\* nothing, or uses up one of them.
LEMMA RewriteUses ==
  ASSUME TypeOK, NEW c \in Clients, rewrite_response(c)
  PROVE  \/ /\ Matches(c) = {}
            /\ pending' = pending
            /\ reply' = [client |-> c, from |-> Target]
         \/ \E i \in Matches(c) :
              /\ pending' = Removed(pending, i)
              /\ reply' = [client |-> c, from |-> pending[i].dst]
<1>1. CASE Matches(c) = {}
  BY <1>1 DEF rewrite_response
<1>2. CASE Matches(c) # {}
  <2>1. Len(pending) \in Nat /\ Matches(c) \in SUBSET (1 .. Len(pending))
    BY LenProperties DEF TypeOK, Matches
  <2>2. Newest(Matches(c)) \in Matches(c)
    BY <1>2, <2>1, LastExists DEF Newest
  <2> QED
    BY <1>2, <2>2 DEF rewrite_response, SwapRemove, Removed
<1> QED
  BY <1>1, <1>2

\* Whichever it is, the array stays one and does not grow.
LEMMA RewriteTyped ==
  ASSUME TypeOK, NEW c \in Clients, rewrite_response(c)
  PROVE  /\ pending' \in Seq(Entry)
         /\ Len(pending') <= Len(pending)
         /\ reply' \in [client : Clients, from : Servers \cup {Target}]
<1>1. pending \in Seq(Entry) /\ Len(pending) \in Nat
  BY LenProperties DEF TypeOK
<1>2. CASE Matches(c) = {} /\ pending' = pending
           /\ reply' = [client |-> c, from |-> Target]
  BY <1>1, <1>2
<1>3. ASSUME NEW i \in Matches(c), pending' = Removed(pending, i),
             reply' = [client |-> c, from |-> pending[i].dst]
      PROVE  /\ pending' \in Seq(Entry)
             /\ Len(pending') <= Len(pending)
             /\ reply' \in [client : Clients, from : Servers \cup {Target}]
  <2>1. i \in 1 .. Len(pending) /\ pending[i] \in Entry
    BY <1>1, ElementOfSeq DEF Matches
  <2>2. pending' \in Seq(Entry) /\ Len(pending') = Len(pending) - 1
    BY <1>1, <1>3, <2>1, RemovedIsSeq
  <2>3. pending[i].dst \in Servers
    BY <2>1 DEF Entry
  <2> QED
    BY <1>1, <1>3, <2>2, <2>3
<1> QED
  BY <1>2, <1>3, RewriteUses

-----------------------------------------------------------------------------
(* Type correctness.                                                       *)

\* Each step keeps the types.
LEMMA TypeStep == TypeOK /\ [Next]_vars => TypeOK'
<1> SUFFICES ASSUME TypeOK, [Next]_vars PROVE TypeOK'
  OBVIOUS
<1> USE DnsAssumption
<1>0. pending \in Seq(Entry) /\ Len(pending) \in Nat
  BY LenProperties DEF TypeOK
<1>1. ASSUME NEW c \in Clients, NEW s \in Servers, NEW sent \in BOOLEAN,
             on_tun_read(c, s, sent)
      PROVE  TypeOK'
  <2>1. pending' \in Seq(Entry) /\ Len(pending') <= MaxPending
    <3>1. [client |-> c, dst |-> s] \in Entry
      BY DEF Entry
    <3> QED
      BY <1>0, <1>1, <3>1, AppendProperties
      DEF TypeOK, on_tun_read, SaveMapping, Full
  <2> QED
    BY <1>1, <2>1 DEF TypeOK, on_tun_read
<1>2. ASSUME NEW c \in Clients, Receive(c) PROVE TypeOK'
  <2>1. /\ pending' \in Seq(Entry) /\ Len(pending') \in Nat
        /\ Len(pending') <= Len(pending)
        /\ reply' \in [client : Clients, from : Servers \cup {Target}]
    BY <1>2, RewriteTyped, LenProperties DEF Receive
  <2>2. net' \in [Clients -> Nat]
    BY <1>2 DEF TypeOK, Receive
  <2> QED
    BY <1>0, <1>2, <2>1, <2>2 DEF TypeOK, Receive
<1>3. ASSUME NEW c \in Clients, ReceiveAgain(c) PROVE TypeOK'
  <2>1. /\ pending' \in Seq(Entry) /\ Len(pending') \in Nat
        /\ Len(pending') <= Len(pending)
        /\ reply' \in [client : Clients, from : Servers \cup {Target}]
    BY <1>3, RewriteTyped, LenProperties DEF ReceiveAgain
  <2>2. excess' \in [Clients -> Nat]
    BY <1>3 DEF TypeOK, ReceiveAgain
  <2> QED
    BY <1>0, <1>3, <2>1, <2>2 DEF TypeOK, ReceiveAgain
<1>4. ASSUME NEW c \in Clients, Lose(c) PROVE TypeOK'
  BY <1>4 DEF TypeOK, Lose
<1>5. CASE Recreate
  BY <1>5, EmptySeq DEF TypeOK, Recreate
<1>6. CASE UNCHANGED vars
  BY <1>6 DEF TypeOK, vars
<1> QED
  BY <1>1, <1>2, <1>3, <1>4, <1>5, <1>6 DEF Next

\* Type correctness of the array and of the bookkeeping, for any bounds.
THEOREM TypeCorrect == Spec => []TypeOK
<1>1. Init => TypeOK
  BY DnsAssumption, EmptySeq DEF Init, TypeOK
<1> QED
  BY <1>1, TypeStep, PTL DEF Spec

-----------------------------------------------------------------------------
(* No mapping of another client or of an earlier connection is used.       *)

\* Every mapping in the array is one its client asked for in this connection.
MappingsAsked ==
  \A i \in 1 .. Len(pending) : <<pending[i].client, pending[i].dst>> \in asked

\* Each step keeps it, as the removal only moves entries.
LEMMA AskedStep ==
  TypeOK /\ MappingsAsked /\ RestoredIsAsked /\ [Next]_vars =>
    MappingsAsked' /\ RestoredIsAsked'
<1> SUFFICES ASSUME TypeOK, MappingsAsked, RestoredIsAsked, [Next]_vars
             PROVE  MappingsAsked' /\ RestoredIsAsked'
  OBVIOUS
<1>0. pending \in Seq(Entry) /\ Len(pending) \in Nat
  BY LenProperties DEF TypeOK
<1>1. ASSUME NEW c \in Clients, NEW s \in Servers, NEW sent \in BOOLEAN,
             on_tun_read(c, s, sent)
      PROVE  MappingsAsked' /\ RestoredIsAsked'
  <2>1. [client |-> c, dst |-> s] \in Entry
    BY DEF Entry
  <2>2. MappingsAsked'
    BY <1>0, <1>1, <2>1, AppendProperties
    DEF MappingsAsked, on_tun_read, SaveMapping
  <2> QED
    BY <1>1, <2>2 DEF on_tun_read, RestoredIsAsked, NoReply
<1>2. ASSUME NEW c \in Clients, rewrite_response(c), asked' = asked
      PROVE  MappingsAsked' /\ RestoredIsAsked'
  <2>1. CASE pending' = pending /\ reply' = [client |-> c, from |-> Target]
    BY <1>2, <2>1 DEF MappingsAsked, RestoredIsAsked
  <2>2. ASSUME NEW i \in Matches(c), pending' = Removed(pending, i),
               reply' = [client |-> c, from |-> pending[i].dst]
        PROVE  MappingsAsked' /\ RestoredIsAsked'
    <3>1. i \in 1 .. Len(pending) /\ pending[i].client = c
      BY DEF Matches
    <3>2. RestoredIsAsked'
      BY <1>2, <2>2, <3>1 DEF MappingsAsked, RestoredIsAsked
    <3>3. /\ Len(pending') = Len(pending) - 1
          /\ \A j \in 1 .. Len(pending) - 1 :
               pending'[j] = IF j = i THEN pending[Len(pending)] ELSE pending[j]
      BY <1>0, <2>2, <3>1, RemovedIsSeq DEF Removed
    <3>4. MappingsAsked'
      BY <1>0, <1>2, <3>3 DEF MappingsAsked
    <3> QED
      BY <3>2, <3>4
  <2> QED
    BY <1>2, <2>1, <2>2, RewriteUses
<1>3. ASSUME NEW c \in Clients, Lose(c)
      PROVE  MappingsAsked' /\ RestoredIsAsked'
  BY <1>3 DEF Lose, MappingsAsked, RestoredIsAsked, NoReply
<1>4. CASE Recreate
  BY <1>4 DEF Recreate, MappingsAsked, RestoredIsAsked, NoReply
<1>5. CASE UNCHANGED vars
  BY <1>5 DEF vars, MappingsAsked, RestoredIsAsked
<1> QED
  BY <1>1, <1>2, <1>3, <1>4, <1>5 DEF Next, Receive, ReceiveAgain

\* A restored reply shows a server that this very client asked through this
\* very context, however mappings were left behind, moved and used up before.
THEOREM RestoredAreAsked == Spec => []RestoredIsAsked
<1>1. Init => MappingsAsked /\ RestoredIsAsked
  BY DEF Init, MappingsAsked, RestoredIsAsked
<1> QED
  BY <1>1, TypeCorrect, AskedStep, PTL DEF Spec

-----------------------------------------------------------------------------
(* No reply under way lacks a mapping for more than a counted reason.      *)

\* Held is a number, and so it is after the step.
LEMMA HeldTyped ==
  ASSUME TypeOK, TypeOK', NEW c \in Clients
  PROVE  /\ Held(c)  = Cardinality(Where(pending, OfClient(c)))
         /\ Held(c)' = Cardinality(Where(pending', OfClient(c)))
         /\ Held(c) \in Nat /\ Held(c)' \in Nat
<1>1. pending \in Seq(Entry) /\ pending' \in Seq(Entry)
  BY DEF TypeOK
<1>2. /\ Held(c)  = Cardinality(Where(pending, OfClient(c)))
      /\ Held(c)' = Cardinality(Where(pending', OfClient(c)))
  BY <1>1, ClientCount DEF Held, Matches
<1> QED
  BY <1>1, <1>2, WhereFinite

\* A reply to c costs c at most one mapping, and none if it had none, and
\* costs nobody else one.
LEMMA RewriteHeld ==
  ASSUME TypeOK, TypeOK', NEW c \in Clients, rewrite_response(c),
         NEW d \in Clients
  PROVE  Held(d)' = IF d = c /\ Held(c) > 0 THEN Held(d) - 1 ELSE Held(d)
<1>0. pending \in Seq(Entry) /\ Len(pending) \in Nat
  BY LenProperties DEF TypeOK
<1>1. Matches(c) = {} <=> Held(c) = 0
  <2>1. Matches(c) = Where(pending, OfClient(c))
    BY <1>0, ClientCount DEF Matches
  <2> QED
    BY <1>0, <2>1, WhereFinite, FS_EmptySet DEF Held
<1>2. CASE Matches(c) = {} /\ pending' = pending
  BY <1>1, <1>2, HeldTyped
<1>3. ASSUME NEW i \in Matches(c), pending' = Removed(pending, i)
      PROVE  Held(d)' = IF d = c THEN Held(d) - 1 ELSE Held(d)
  <2>1. i \in 1 .. Len(pending) /\ (pending[i] \in OfClient(d) <=> d = c)
    BY <1>0, ElementOfSeq DEF Matches, OfClient
  <2> QED
    BY <1>0, <1>3, <2>1, RemovedCount, HeldTyped
<1> QED
  BY <1>1, <1>2, <1>3, HeldTyped, RewriteUses

\* Each step changes the mappings, the replies under way and the excess of a
\* client alike.
LEMMA ForgottenStep ==
  TypeOK /\ TypeOK' /\ NoneForgotten /\ [Next]_vars => NoneForgotten'
<1> SUFFICES ASSUME TypeOK, TypeOK', NoneForgotten, [Next]_vars,
                    NEW d \in Clients
             PROVE  net'[d] <= Held(d)' + excess'[d]
  BY DEF NoneForgotten
<1>0. /\ net[d] \in Nat /\ excess[d] \in Nat
      /\ net'[d] \in Nat /\ excess'[d] \in Nat
      /\ Held(d) \in Nat /\ Held(d)' \in Nat
      /\ net[d] <= Held(d) + excess[d]
  BY HeldTyped DEF TypeOK, NoneForgotten
<1>1. ASSUME NEW c \in Clients, NEW s \in Servers, NEW sent \in BOOLEAN,
             on_tun_read(c, s, sent)
      PROVE  net'[d] <= Held(d)' + excess'[d]
  <2>1. net'[d] <= net[d] + (IF d = c THEN 1 ELSE 0)
    BY <1>0, <1>1 DEF on_tun_read, TypeOK
  <2>2. CASE Full
    <3>1. pending' = pending
      BY <1>1, <2>2 DEF on_tun_read, SaveMapping
    <3>2. Held(d)' = Held(d)
      BY <3>1, HeldTyped
    <3>3. excess'[d] = excess[d] + (IF d = c THEN 1 ELSE 0)
      BY <1>0, <1>1, <2>2 DEF on_tun_read, TypeOK
    <3> QED
      BY <1>0, <2>1, <3>2, <3>3
  <2>3. CASE ~Full
    <3>1. /\ pending' = Append(pending, [client |-> c, dst |-> s])
          /\ excess' = excess
      BY <1>1, <2>3 DEF on_tun_read, SaveMapping
    <3>2. /\ [client |-> c, dst |-> s] \in Entry
          /\ [client |-> c, dst |-> s] \in OfClient(d) <=> d = c
          /\ pending \in Seq(Entry)
      BY DEF Entry, OfClient, TypeOK
    <3>3. Held(d)' = Held(d) + (IF d = c THEN 1 ELSE 0)
      BY <3>1, <3>2, AppendCount, HeldTyped
    <3> QED
      BY <1>0, <2>1, <3>1, <3>3
  <2> QED
    BY <2>2, <2>3
<1>2. ASSUME NEW c \in Clients, Receive(c)
      PROVE  net'[d] <= Held(d)' + excess'[d]
  <2>1. Held(d)' = IF d = c /\ Held(c) > 0 THEN Held(d) - 1 ELSE Held(d)
    BY <1>2, RewriteHeld DEF Receive
  <2>2. net'[d] = (IF d = c THEN net[d] - 1 ELSE net[d]) /\ excess' = excess
    BY <1>2 DEF Receive, TypeOK
  <2> QED
    BY <1>0, <2>1, <2>2
<1>3. ASSUME NEW c \in Clients, ReceiveAgain(c)
      PROVE  net'[d] <= Held(d)' + excess'[d]
  <2>1. Held(d)' = IF d = c /\ Held(c) > 0 THEN Held(d) - 1 ELSE Held(d)
    BY <1>3, RewriteHeld DEF ReceiveAgain
  <2>2. /\ excess'[d] = (IF d = c THEN excess[d] + 1 ELSE excess[d])
        /\ net' = net
    BY <1>3 DEF ReceiveAgain, TypeOK
  <2> QED
    BY <1>0, <2>1, <2>2
<1>4. ASSUME NEW c \in Clients, Lose(c)
      PROVE  net'[d] <= Held(d)' + excess'[d]
  <2>1. Held(d)' = Held(d) /\ excess' = excess
    BY <1>4, HeldTyped DEF Lose
  <2>2. net'[d] <= net[d]
    BY <1>0, <1>4 DEF Lose, TypeOK
  <2> QED
    BY <1>0, <2>1, <2>2
<1>5. CASE Recreate
  BY <1>0, <1>5 DEF Recreate
<1>6. CASE UNCHANGED vars
  BY <1>0, <1>6, HeldTyped DEF vars
<1> QED
  BY <1>1, <1>2, <1>3, <1>4, <1>5, <1>6 DEF Next

\* Every reply still under way finds a mapping, but for one reply for each
\* query that met a full array and for each reply that came twice.
THEOREM NoReplyForgotten == Spec => []NoneForgotten
<1>1. Init => NoneForgotten
  <2> SUFFICES ASSUME Init, NEW c \in Clients PROVE net[c] <= Held(c) + excess[c]
    BY DEF NoneForgotten
  <2>1. pending \in Seq(Entry)
    BY EmptySeq DEF Init
  <2>2. Held(c) \in Nat
    BY <2>1, ClientCount, WhereFinite DEF Held, Matches
  <2> QED
    BY <2>2 DEF Init
<1> QED
  BY <1>1, TypeCorrect, ForgottenStep, PTL DEF Spec

-----------------------------------------------------------------------------
(* DnsHijack implements DnsNat.                                            *)

\* The bag, and what it becomes, counts mappings.
LEMMA TableTyped ==
  ASSUME TypeOK, TypeOK'
  PROVE  /\ Table \in [Clients \X Servers -> Nat]
         /\ Table' \in [Clients \X Servers -> Nat]
         /\ \A c \in Clients, s \in Servers :
              /\ Table[<<c, s>>] = Cardinality(Where(pending, Mapping(c, s)))
              /\ Table'[<<c, s>>] = Cardinality(Where(pending', Mapping(c, s)))
<1>1. pending \in Seq(Entry) /\ pending' \in Seq(Entry)
  BY DEF TypeOK
<1>2. ASSUME NEW q \in Seq(Entry), NEW cs \in Clients \X Servers
      PROVE  Cardinality({i \in 1 .. Len(q) :
                            q[i] = [client |-> cs[1], dst |-> cs[2]]}) \in Nat
  <2>1. {i \in 1 .. Len(q) : q[i] = [client |-> cs[1], dst |-> cs[2]]}
          = Where(q, Mapping(cs[1], cs[2]))
    BY DEF Where, Mapping
  <2> QED
    BY <2>1, WhereFinite
<1>3. Table \in [Clients \X Servers -> Nat] /\ Table' \in [Clients \X Servers -> Nat]
  BY <1>1, <1>2 DEF Table
<1>4. \A c \in Clients, s \in Servers :
        /\ Table[<<c, s>>] = Cardinality(Where(pending, Mapping(c, s)))
        /\ Table'[<<c, s>>] = Cardinality(Where(pending', Mapping(c, s)))
  BY MappingCount DEF Table
<1> QED
  BY <1>3, <1>4

\* Two bags are equal if they hold as many of every mapping.
LEMMA BagsEqual ==
  ASSUME NEW f \in [Clients \X Servers -> Nat],
         NEW g \in [Clients \X Servers -> Nat],
         \A c \in Clients, s \in Servers : f[<<c, s>>] = g[<<c, s>>]
  PROVE  f = g
<1>1. ASSUME NEW cs \in Clients \X Servers PROVE f[cs] = g[cs]
  <2>1. PICK c \in Clients, s \in Servers : cs = <<c, s>>
    OBVIOUS
  <2> QED
    BY <2>1
<1> QED
  BY <1>1

\* Counting a mapping once more, or once less, in a bag.
LEMMA BagExcept ==
  ASSUME NEW f \in [Clients \X Servers -> Nat],
         NEW g \in [Clients \X Servers -> Nat],
         NEW c \in Clients, NEW s \in Servers, NEW n \in Nat,
         g[<<c, s>>] = n,
         \A d \in Clients, t \in Servers :
           ~(d = c /\ t = s) => g[<<d, t>>] = f[<<d, t>>]
  PROVE  g = [f EXCEPT ![<<c, s>>] = n]
<1> DEFINE h == [f EXCEPT ![<<c, s>>] = n]
<1>1. h \in [Clients \X Servers -> Nat]
  OBVIOUS
<1>2. ASSUME NEW d \in Clients, NEW t \in Servers
      PROVE  g[<<d, t>>] = h[<<d, t>>]
  <2>1. <<d, t>> = <<c, s>> <=> d = c /\ t = s
    OBVIOUS
  <2> QED
    BY <2>1
<1> HIDE DEF h
<1>3. g = h
  BY <1>1, <1>2, BagsEqual
<1> QED
  BY <1>3 DEF h

\* A query is a query of the bag, whether the array has room or not.
LEMMA AskStep ==
  ASSUME TypeOK, TypeOK', NEW c \in Clients, NEW s \in Servers,
         NEW sent \in BOOLEAN, on_tun_read(c, s, sent)
  PROVE  Nat1!Ask(c, s)
<1>0. pending \in Seq(Entry) /\ Len(pending) \in Nat /\ MaxPending \in Nat
  BY LenProperties, DnsAssumption DEF TypeOK
<1>1. CASE Full
  <2>1. pending' = pending /\ reply' = NoReply
    BY <1>1 DEF on_tun_read, SaveMapping
  <2>2. Table' = Table /\ Len(pending)' = Len(pending)
    BY <2>1 DEF Table
  <2> QED
    BY <1>0, <1>1, <2>1, <2>2 DEF Nat1!Ask, Full, NoReply, Nat1!NoReply
<1>2. CASE ~Full
  <2>0. [client |-> c, dst |-> s] \in Entry
    BY DEF Entry
  <2>1. /\ pending' = Append(pending, [client |-> c, dst |-> s])
        /\ reply' = NoReply /\ Len(pending') = Len(pending) + 1
    BY <1>0, <1>2, <2>0, AppendProperties DEF on_tun_read, SaveMapping
  <2>2. ASSUME NEW d \in Clients, NEW t \in Servers
        PROVE  Table'[<<d, t>>]
                 = Table[<<d, t>>] + (IF d = c /\ t = s THEN 1 ELSE 0)
    <3>1. [client |-> c, dst |-> s] \in Mapping(d, t) <=> d = c /\ t = s
      BY DEF Mapping
    <3> QED
      BY <1>0, <2>0, <2>1, <3>1, AppendCount, TableTyped
  <2>3. Table' = [Table EXCEPT ![<<c, s>>] = @ + 1]
    <3>1. Table'[<<c, s>>] = Table[<<c, s>>] + 1 /\ Table[<<c, s>>] + 1 \in Nat
      BY <2>2, TableTyped
    <3>2. ASSUME NEW d \in Clients, NEW t \in Servers, ~(d = c /\ t = s)
          PROVE  Table'[<<d, t>>] = Table[<<d, t>>]
      BY <2>2, <3>2, TableTyped
    <3>3. Table' = [Table EXCEPT ![<<c, s>>] = Table[<<c, s>>] + 1]
      BY <3>1, <3>2, TableTyped, BagExcept
    <3> QED
      BY <3>3
  <2> QED
    BY <1>0, <1>2, <2>1, <2>3 DEF Nat1!Ask, Full, NoReply, Nat1!NoReply
<1> QED
  BY <1>1, <1>2

\* A reply that finds no mapping of its client passes through.
LEMMA PassStep ==
  ASSUME TypeOK, TypeOK', NEW c \in Clients, Matches(c) = {},
         pending' = pending, reply' = [client |-> c, from |-> Target]
  PROVE  Nat1!PassThrough(c)
<1>1. ASSUME NEW s \in Servers PROVE Table[<<c, s>>] = 0
  <2>1. Where(pending, Mapping(c, s)) = {}
    BY DEF Where, Mapping, Matches
  <2> QED
    BY <2>1, TableTyped, FS_EmptySet
<1>2. Table' = Table
  BY DEF Table
<1> QED
  BY <1>1, <1>2 DEF Nat1!PassThrough

\* One that finds some uses up the newest, and shows its server.
LEMMA RestoreStep ==
  ASSUME TypeOK, TypeOK', NEW c \in Clients, NEW i \in Matches(c),
         pending' = Removed(pending, i),
         reply' = [client |-> c, from |-> pending[i].dst]
  PROVE  \E s \in Servers : Nat1!Restore(c, s)
<1> DEFINE s == pending[i].dst
<1>0. pending \in Seq(Entry) /\ Len(pending) \in Nat
  BY LenProperties DEF TypeOK
<1>1. /\ i \in 1 .. Len(pending) /\ s \in Servers
      /\ pending[i] = [client |-> c, dst |-> s]
  <2>1. \A e \in Entry : e.dst \in Servers /\ e = [client |-> e.client, dst |-> e.dst]
    BY DEF Entry
  <2>2. i \in 1 .. Len(pending) /\ pending[i].client = c
    BY DEF Matches
  <2> QED
    BY <1>0, <2>1, <2>2, ElementOfSeq
<1>2. Len(pending') = Len(pending) - 1
  BY <1>0, <1>1, RemovedIsSeq
<1>3. ASSUME NEW d \in Clients, NEW t \in Servers
      PROVE  Table'[<<d, t>>]
               = Table[<<d, t>>] - (IF d = c /\ t = s THEN 1 ELSE 0)
  <2>1. pending[i] \in Mapping(d, t) <=> d = c /\ t = s
    BY <1>1 DEF Mapping
  <2> QED
    BY <1>0, <1>1, <2>1, RemovedCount, TableTyped
<1>4. /\ Table'[<<c, s>>] = Table[<<c, s>>] - 1
      /\ Table[<<c, s>>] \in Nat /\ Table'[<<c, s>>] \in Nat
  BY <1>1, <1>3, TableTyped
<1>5. \A d \in Clients, t \in Servers :
        ~(d = c /\ t = s) => Table'[<<d, t>>] = Table[<<d, t>>]
  BY <1>3, TableTyped
<1> HIDE DEF s
<1>6. Table' = [Table EXCEPT ![<<c, s>>] = Table[<<c, s>>] - 1]
  BY <1>1, <1>4, <1>5, TableTyped, BagExcept
<1>7. Nat1!Restore(c, s)
  BY <1>1, <1>2, <1>4, <1>6 DEF Nat1!Restore, s
<1> QED
  BY <1>1, <1>7

\* Every step of the array is a step of the bag, or leaves it as it is.
LEMMA NatStep ==
  TypeOK /\ TypeOK' /\ [Next]_vars => [Nat1!Next]_<<Table, Len(pending), reply>>
<1> SUFFICES ASSUME TypeOK, TypeOK', [Next]_vars
             PROVE  [Nat1!Next]_<<Table, Len(pending), reply>>
  OBVIOUS
<1>1. ASSUME NEW c \in Clients, NEW s \in Servers, NEW sent \in BOOLEAN,
             on_tun_read(c, s, sent)
      PROVE  Nat1!Next
  BY <1>1, AskStep DEF Nat1!Next
<1>2. ASSUME NEW c \in Clients, rewrite_response(c) PROVE Nat1!Next
  <2>1. CASE Matches(c) = {} /\ pending' = pending
             /\ reply' = [client |-> c, from |-> Target]
    BY <2>1, PassStep DEF Nat1!Next
  <2>2. ASSUME NEW i \in Matches(c), pending' = Removed(pending, i),
               reply' = [client |-> c, from |-> pending[i].dst]
        PROVE  Nat1!Next
    BY <2>2, RestoreStep DEF Nat1!Next
  <2> QED
    BY <1>2, <2>1, <2>2, RewriteUses
<1>3. ASSUME NEW c \in Clients, Lose(c) PROVE Nat1!Next
  <2>1. Table' = Table /\ Len(pending)' = Len(pending) /\ reply' = NoReply
    BY <1>3 DEF Lose, Table
  <2> QED
    BY <2>1 DEF Nat1!Next, Nat1!Quiet, NoReply, Nat1!NoReply
<1>4. CASE Recreate
  <2>1. pending' = <<>> /\ Len(pending') = 0 /\ reply' = NoReply
    BY <1>4, EmptySeq DEF Recreate
  <2>2. Table' = [cs \in Clients \X Servers |-> 0]
    BY <2>1, FS_EmptySet DEF Table
  <2> QED
    BY <2>1, <2>2 DEF Nat1!Next, Nat1!Reset, NoReply, Nat1!NoReply
<1>5. CASE UNCHANGED vars
  <2>1. Table' = Table /\ Len(pending)' = Len(pending) /\ reply' = reply
    BY <1>5 DEF vars, Table
  <2> QED
    BY <2>1
<1> QED
  BY <1>1, <1>2, <1>3, <1>4, <1>5 DEF Next, Receive, ReceiveAgain

\* The array of dns_hijack.c implements the bounded bag of mappings, for any
\* size of the array and any clients and servers.
THEOREM ArrayImplementsNat == Spec => ImplementsNat
<1>1. Init => Nat1!Init
  <2> SUFFICES ASSUME Init PROVE Nat1!Init
    OBVIOUS
  <2>1. pending = <<>> /\ Len(pending) = 0 /\ reply = NoReply
    BY EmptySeq DEF Init
  <2>2. Table = [cs \in Clients \X Servers |-> 0]
    BY <2>1, FS_EmptySet DEF Table
  <2> QED
    BY <2>1, <2>2 DEF Nat1!Init, NoReply, Nat1!NoReply
<1> QED
  BY <1>1, TypeCorrect, NatStep, PTL DEF Spec, ImplementsNat, Nat1!Spec
=============================================================================
