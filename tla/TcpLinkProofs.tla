--------------------------- MODULE TcpLinkProofs ---------------------------
(***************************************************************************)
(* Theorems of TcpLink, for every size of the pool and every number of     *)
(* failures.  The invariants the runs check say nothing of the list a      *)
(* handle's pcb is in, and that is what decides: a handle that was not     *)
(* overtaken by a free points to a pcb of its owner outside the pool.      *)
(* With it, and with the states that belong to each list, every callback   *)
(* is seen to change one pcb and to leave the others where they are.       *)
(***************************************************************************)
EXTENDS TcpLink, TLAPS

\* The state and the owner of a pcb fit the list it is in.
Stated(m, q) ==
  /\ q \in ToSet(m.active) => m.state[q] \notin {"CLOSED", "TIME_WAIT"}
  /\ q \in m.tw => m.state[q] = "TIME_WAIT"
  /\ q \in ToSet(m.active) /\ m.state[q] = "SYN_SENT" => m.owner[q] = "client"
  /\ q \in ToSet(m.active) /\ m.state[q] = "SYN_RCVD" => m.owner[q] = "none"

\* A pcb is in exactly one of the four lists.
Placed(m, q) ==
  /\ q \in ToSet(m.free) \/ q \in ToSet(m.active) \/ q \in m.tw \/ q \in m.bound
  /\ q \in ToSet(m.free) => q \notin ToSet(m.active) /\ q \notin m.tw /\ q \notin m.bound
  /\ q \in ToSet(m.active) => q \notin m.tw /\ q \notin m.bound
  /\ q \in m.tw => q \notin m.bound

\* The lists and the contents of the pcbs.
LwType ==
  [free : Seq(Pcbs), active : Seq(Pcbs), tw : SUBSET Pcbs, bound : SUBSET Pcbs,
   state : [Pcbs -> States], owner : [Pcbs -> {"none", "client", "server"}]]

\* No list has a pcb twice, and no pcb is in two of them.
Linked(m) ==
  /\ m \in LwType
  /\ IsInjective(m.free) /\ IsInjective(m.active)
  /\ \A q \in Pcbs : Placed(m, q)

Pool(m) == Linked(m) /\ \A q \in Pcbs : Stated(m, q)

\* tcp_slowtmr has only active pcbs to look at: what a callback frees is the one
\* it has just looked at.
Walk == IsInjective(todo) /\ ToSet(todo) \subseteq ToSet(lw.active)

\* A handle of the server that no free has overtaken points to a connection of
\* the server that is in a list.
ServerHandle ==
  /\ g_tcpaccept_pcb = NULL => "server" \notin dangling
  /\ "server" \notin dangling /\ g_tcpaccept_pcb # NULL =>
       /\ g_tcpaccept_pcb \in ToSet(lw.active) \cup lw.tw
       /\ lw.owner[g_tcpaccept_pcb] = "server"
       /\ lw.state[g_tcpaccept_pcb] \notin {"CLOSED", "SYN_SENT", "SYN_RCVD"}

\* The same of the client, whose pcb can also be bound and not yet connecting.
ClientHandle ==
  /\ s_tcpclient_pcb \in Pcbs
  /\ "client" \notin dangling =>
       s_tcpclient_pcb \notin ToSet(lw.free) /\ lw.owner[s_tcpclient_pcb] = "client"

\* A request for a reconnection while the connection stands or is being made is
\* an old one, and the next tcp_slowtmr takes it back before it can be due.
Pending ==
  s_iNeedReconnectTcp /\ Link /\ ~misled =>
    (age = 0 /\ todo = <<>>) \/ s_tcpclient_pcb \in ToSet(todo)

\* Nothing but its types is left to the state after a bogus tcp_close, where the
\* model ends.
IInv ==
  /\ TypeOK
  /\ bogus => todo = <<>>
  /\ ~bogus => /\ Pool(lw) /\ Walk /\ ServerHandle /\ ClientHandle /\ Pending
               /\ ServesOne /\ LinkKnown

-----------------------------------------------------------------------------
(* Sequences.                                                              *)

\* What is left of a sequence without its k-th element.
LEMMA RemoveAtFacts ==
  ASSUME NEW S, NEW s \in Seq(S), NEW k \in 1..Len(s)
  PROVE /\ RemoveAt(s, k) \in Seq(S) /\ Len(RemoveAt(s,k)) = Len(s) - 1
        /\ \A i \in 1..(Len(s)-1) : RemoveAt(s,k)[i] = IF i < k THEN s[i] ELSE s[i+1]
<1> DEFINE a == SubSeq(s, 1, k-1)
           b == SubSeq(s, k+1, Len(s))
<1>1. a \in Seq(S) /\ b \in Seq(S)
   OBVIOUS
<1>2. Len(a) = k-1 /\ Len(b) = Len(s) - k /\ Len(s) \in Nat /\ k \in Nat
   OBVIOUS
<1>3. ASSUME NEW i \in 1..(k-1) PROVE a[i] = s[i]
   OBVIOUS
<1>4. ASSUME NEW i \in 1..(Len(s)-k) PROVE b[i] = s[k+i]
   OBVIOUS
<1>0. RemoveAt(s,k) = a \o b
  BY DEF RemoveAt
<1> HIDE DEF a, b
<1>5. a \o b \in Seq(S) /\ Len(a \o b) = Len(s) - 1
  BY <1>1, <1>2
<1>6. ASSUME NEW i \in 1..(Len(s)-1) PROVE (a \o b)[i] = IF i < k THEN s[i] ELSE s[i+1]
  <2>1. CASE i < k
    <3>1. i \in 1..(k-1) /\ i \in 1..Len(a)
      BY <1>2, <2>1
    <3>2. (a \o b)[i] = a[i]
      BY <1>1, <3>1
    <3>3. QED
      BY <1>3, <2>1, <3>1, <3>2
  <2>2. CASE i >= k
    <3>1. i - Len(a) \in 1..Len(b) /\ i-Len(a) = i - (k-1) /\ i - (k-1) \in 1..(Len(s)-k)
      BY <1>2, <2>2
    <3>2. (a \o b)[i] = b[i - Len(a)]
      BY <1>1, <1>2, <2>2, <1>6
    <3>3. b[i - (k-1)] = s[i+1]
      <4>1. k + (i - (k-1)) = i+1
         BY <1>2
      <4>2. QED BY <1>4, <3>1, <4>1
    <3>4. QED
      BY <1>2, <2>2, <3>1, <3>2, <3>3
  <2>3. QED BY <1>2, <2>1, <2>2
<1>7. QED
   BY <1>0, <1>5, <1>6

\* TCP_RMV on any list.
LEMMA WithoutTyped ==
  ASSUME NEW S, NEW s \in Seq(S), NEW p
  PROVE  Without(s, p) \in Seq(S)
<1>1. CASE p \in ToSet(s)
  <2> DEFINE k == CHOOSE i \in DOMAIN s : s[i] = p
  <2>1. k \in 1..Len(s)
    BY <1>1 DEF ToSet
  <2>2. Without(s, p) = RemoveAt(s, k)
    BY <1>1 DEF Without
  <2> HIDE DEF k
  <2> QED BY <2>1, <2>2, RemoveAtFacts
<1>2. CASE p \notin ToSet(s)
  BY <1>2 DEF Without
<1> QED BY <1>1, <1>2

\* TCP_RMV on a list that has no pcb twice takes out this one and no other.
LEMMA WithoutSet ==
  ASSUME NEW S, NEW s \in Seq(S), NEW p, IsInjective(s)
  PROVE  /\ ToSet(Without(s, p)) = ToSet(s) \ {p}
         /\ IsInjective(Without(s, p))
<1>1. CASE p \in ToSet(s)
  <2> DEFINE k == CHOOSE i \in DOMAIN s : s[i] = p
             r == RemoveAt(s, k)
  <2>1. k \in 1..Len(s) /\ s[k] = p /\ Len(s) \in Nat /\ DOMAIN s = 1..Len(s)
    BY <1>1 DEF ToSet
  <2>2. Without(s, p) = r
    BY <1>1 DEF Without
  <2> HIDE DEF k
  <2>3. /\ r \in Seq(S) /\ Len(r) = Len(s) - 1
        /\ \A i \in 1..(Len(s) - 1) : r[i] = IF i < k THEN s[i] ELSE s[i + 1]
    BY <2>1, RemoveAtFacts
  <2> HIDE DEF r
  <2>4. DOMAIN r = 1..(Len(s) - 1)
    BY <2>3
  <2>5. \A a, b \in 1..Len(s) : s[a] = s[b] => a = b
    BY <2>1 DEF IsInjective
  <2>6. ASSUME NEW i \in DOMAIN r PROVE r[i] \in ToSet(s) /\ r[i] # p
    BY <2>1, <2>3, <2>4, <2>5 DEF ToSet
  <2>7. ASSUME NEW j \in DOMAIN s, s[j] # p PROVE \E i \in DOMAIN r : r[i] = s[j]
    <3>1. CASE j < k
      BY <2>1, <2>3, <2>4, <3>1
    <3>2. CASE j > k
      <4>1. j - 1 \in 1..(Len(s) - 1) /\ ~(j - 1 < k) /\ (j - 1) + 1 = j
        BY <2>1, <3>2
      <4>2. r[j - 1] = s[j]
        BY <2>3, <4>1
      <4> QED BY <2>4, <4>1, <4>2
    <3> QED BY <2>1, <2>7, <3>1, <3>2
  <2>8. ToSet(r) = ToSet(s) \ {p}
    BY <2>6, <2>7 DEF ToSet
  <2>9. ASSUME NEW a \in DOMAIN r, NEW b \in DOMAIN r, r[a] = r[b] PROVE a = b
    BY <2>1, <2>3, <2>4, <2>5, <2>9
  <2> QED BY <2>2, <2>8, <2>9 DEF IsInjective
<1>2. CASE p \notin ToSet(s)
  BY <1>2 DEF Without
<1> QED BY <1>1, <1>2

\* A pcb put in front of a list.
LEMMA Pushed ==
  ASSUME NEW S, NEW s \in Seq(S), NEW p \in S
  PROVE  /\ <<p>> \o s \in Seq(S)
         /\ ToSet(<<p>> \o s) = {p} \cup ToSet(s)
         /\ IsInjective(s) /\ p \notin ToSet(s) => IsInjective(<<p>> \o s)
<1> DEFINE r == <<p>> \o s
<1>1. r \in Seq(S) /\ Len(r) = Len(s) + 1 /\ Len(s) \in Nat
  OBVIOUS
<1>2. r[1] = p
  OBVIOUS
<1>3. ASSUME NEW i \in 1..Len(s) PROVE r[i + 1] = s[i]
  OBVIOUS
<1> HIDE DEF r
<1>4. DOMAIN r = 1..(Len(s) + 1) /\ DOMAIN s = 1..Len(s)
  BY <1>1
<1>5. ASSUME NEW i \in DOMAIN r, i # 1 PROVE i - 1 \in DOMAIN s /\ r[i] = s[i - 1]
  <2>1. i - 1 \in 1..Len(s) /\ (i - 1) + 1 = i
    BY <1>1, <1>4, <1>5
  <2> QED BY <1>3, <1>4, <2>1
<1>6. ASSUME NEW i \in DOMAIN s PROVE i + 1 \in DOMAIN r /\ r[i + 1] = s[i]
  BY <1>1, <1>3, <1>4
<1>7. 1 \in DOMAIN r
  BY <1>1, <1>4
<1>8. ToSet(r) = {p} \cup ToSet(s)
  BY <1>2, <1>5, <1>6, <1>7 DEF ToSet
<1>9. ASSUME IsInjective(s), p \notin ToSet(s), NEW a \in DOMAIN r, NEW b \in DOMAIN r, r[a] = r[b]
      PROVE  a = b
  <2>1. a = 1 <=> b = 1
    BY <1>2, <1>5, <1>9 DEF ToSet
  <2>2. ASSUME a # 1, b # 1 PROVE a = b
    <3>1. a - 1 = b - 1
      BY <1>5, <1>9, <2>2 DEF IsInjective
    <3> QED BY <3>1, <1>4, <1>1
  <2> QED BY <2>1, <2>2
<1> QED BY <1>1, <1>8, <1>9 DEF IsInjective, r

\* What tcp_slowtmr has still to look at after the first pcb.
LEMMA Rest ==
  ASSUME NEW S, NEW s \in Seq(S), s # <<>>, IsInjective(s)
  PROVE  /\ Head(s) \in ToSet(s) /\ Tail(s) \in Seq(S)
         /\ ToSet(Tail(s)) = ToSet(s) \ {Head(s)} /\ IsInjective(Tail(s))
<1>1. /\ Len(s) \in Nat /\ Len(s) >= 1 /\ DOMAIN s = 1..Len(s) /\ Head(s) = s[1]
      /\ Tail(s) \in Seq(S) /\ Len(Tail(s)) = Len(s) - 1
  OBVIOUS
<1>2. \A i \in 1..(Len(s) - 1) : Tail(s)[i] = s[i + 1]
  BY <1>1
<1>3. DOMAIN Tail(s) = 1..(Len(s) - 1)
  BY <1>1
<1>4. \A a, b \in 1..Len(s) : s[a] = s[b] => a = b
  BY <1>1 DEF IsInjective
<1>5. Head(s) \in ToSet(s)
  BY <1>1 DEF ToSet
<1>6. ASSUME NEW i \in DOMAIN Tail(s) PROVE Tail(s)[i] \in ToSet(s) /\ Tail(s)[i] # Head(s)
  BY <1>1, <1>2, <1>3, <1>4 DEF ToSet
<1>7. ASSUME NEW j \in DOMAIN s, s[j] # Head(s) PROVE \E i \in DOMAIN Tail(s) : Tail(s)[i] = s[j]
  <2>1. j - 1 \in 1..(Len(s) - 1) /\ (j - 1) + 1 = j
    BY <1>1, <1>7
  <2> QED BY <1>2, <1>3, <2>1
<1>8. ToSet(Tail(s)) = ToSet(s) \ {Head(s)}
  BY <1>6, <1>7 DEF ToSet
<1>9. ASSUME NEW a \in DOMAIN Tail(s), NEW b \in DOMAIN Tail(s), Tail(s)[a] = Tail(s)[b]
      PROVE  a = b
  BY <1>1, <1>2, <1>3, <1>4, <1>9
<1> QED BY <1>1, <1>5, <1>8, <1>9 DEF IsInjective

-----------------------------------------------------------------------------
(* The pool: what each operator of lwIP does to one pcb.                   *)

\* The other pcbs are where they were, with what they held.
Same(m, n, p) ==
  \A q \in Pcbs \ {p} :
    /\ q \in ToSet(n.free) <=> q \in ToSet(m.free)
    /\ q \in ToSet(n.active) <=> q \in ToSet(m.active)
    /\ q \in n.tw <=> q \in m.tw
    /\ q \in n.bound <=> q \in m.bound
    /\ n.state[q] = m.state[q] /\ n.owner[q] = m.owner[q]

\* The same list holds the pcb.
Stays(m, n, p) ==
  /\ p \in ToSet(n.free) <=> p \in ToSet(m.free)
  /\ p \in ToSet(n.active) <=> p \in ToSet(m.active)
  /\ p \in n.tw <=> p \in m.tw
  /\ p \in n.bound <=> p \in m.bound

\* What a well-formed pool is, part by part.
LEMMA LwParts ==
  ASSUME NEW m, m \in LwType
  PROVE  /\ m.free \in Seq(Pcbs) /\ m.active \in Seq(Pcbs)
         /\ m.tw \subseteq Pcbs /\ m.bound \subseteq Pcbs
         /\ m.state \in [Pcbs -> States] /\ m.owner \in [Pcbs -> {"none", "client", "server"}]
         /\ ToSet(m.free) \subseteq Pcbs /\ ToSet(m.active) \subseteq Pcbs
<1>1. /\ m.free \in Seq(Pcbs) /\ m.active \in Seq(Pcbs)
      /\ m.tw \subseteq Pcbs /\ m.bound \subseteq Pcbs
      /\ m.state \in [Pcbs -> States] /\ m.owner \in [Pcbs -> {"none", "client", "server"}]
  BY DEF LwType
<1>2. ASSUME NEW s \in Seq(Pcbs) PROVE ToSet(s) \subseteq Pcbs
  BY <1>2 DEF ToSet
<1> QED BY <1>1, <1>2

\* What Moved changes, field by field.
LEMMA MovedParts ==
  ASSUME NEW m, m \in LwType, NEW p \in Pcbs, NEW s \in States
  PROVE  LET n == Moved(m, p, s)
         IN  /\ n \in LwType /\ n.free = m.free /\ n.active = m.active
             /\ n.tw = m.tw /\ n.bound = m.bound /\ n.owner = m.owner
             /\ n.state = [m.state EXCEPT ![p] = s]
BY DEF Moved, LwType

\* What memp_free changes; the state of p is left to the handle that may read it.
LEMMA FreedParts ==
  ASSUME NEW m, m \in LwType, NEW p \in Pcbs
  PROVE  LET n == Freed(m, p)
         IN  /\ n \in LwType
             /\ n.free = <<p>> \o m.free /\ n.active = Without(m.active, p)
             /\ n.tw = m.tw \ {p} /\ n.bound = m.bound \ {p}
             /\ n.owner = [m.owner EXCEPT ![p] = "none"]
             /\ \A q \in Pcbs \ {p} : n.state[q] = m.state[q]
<1>1. <<p>> \o m.free \in Seq(Pcbs) /\ Without(m.active, p) \in Seq(Pcbs)
  BY LwParts, Pushed, WithoutTyped
<1>2. "CLOSED" \in States
  BY DEF States
<1>3. m.state[p] \in States
  BY LwParts
<1> QED BY <1>1, <1>2, <1>3 DEF Freed, LwType

\* What the move to the TIME_WAIT list changes.
LEMMA TimeWaitParts ==
  ASSUME NEW m, m \in LwType, NEW p \in Pcbs
  PROVE  LET n == TimeWait(m, p)
         IN  /\ n \in LwType
             /\ n.free = m.free /\ n.active = Without(m.active, p)
             /\ n.tw = m.tw \cup {p} /\ n.bound = m.bound
             /\ n.owner = m.owner /\ n.state = [m.state EXCEPT ![p] = "TIME_WAIT"]
<1>1. Without(m.active, p) \in Seq(Pcbs)
  BY LwParts, WithoutTyped
<1>2. "TIME_WAIT" \in States
  BY DEF States
<1> DEFINE k == Moved(m, p, "TIME_WAIT")
<1>3. /\ k \in LwType /\ k.free = m.free /\ k.active = m.active
      /\ k.tw = m.tw /\ k.bound = m.bound /\ k.owner = m.owner
      /\ k.state = [m.state EXCEPT ![p] = "TIME_WAIT"]
  BY <1>2, MovedParts
<1>4. TimeWait(m, p) = [k EXCEPT !.active = Without(@, p), !.tw = @ \cup {p}]
  BY DEF TimeWait
<1> HIDE DEF k
<1>5. TimeWait(m, p) = [k EXCEPT !.active = Without(m.active, p), !.tw = m.tw \cup {p}]
  BY <1>3, <1>4
<1>6. m.tw \cup {p} \in SUBSET Pcbs
  BY LwParts
<1> QED BY <1>1, <1>3, <1>5, <1>6 DEF LwType

\* The pcb tcp_alloc returns is taken out of the lists, and is in none until the
\* caller puts it in one.
LEMMA AllocatedParts ==
  ASSUME lw \in LwType, NEW p \in Pcbs, NEW s, s \in States,
         NEW o, o \in {"none", "client", "server"}
  PROVE  LET n == Allocated(p, s, o)
         IN  /\ n \in LwType
             /\ n.free = Without(lw.free, p) /\ n.active = Without(lw.active, p)
             /\ n.tw = lw.tw \ {p} /\ n.bound = lw.bound
             /\ n.owner = [lw.owner EXCEPT ![p] = o] /\ n.state = [lw.state EXCEPT ![p] = s]
<1>1. Without(lw.free, p) \in Seq(Pcbs) /\ Without(lw.active, p) \in Seq(Pcbs)
  BY LwParts, WithoutTyped
<1> QED BY <1>1 DEF Allocated, LwType

\* A pcb that changes its state where it is.
LEMMA MovedPool ==
  ASSUME NEW m, Pool(m), NEW p \in ToSet(m.active),
         NEW s \in States \ {"CLOSED", "TIME_WAIT", "SYN_SENT", "SYN_RCVD"}
  PROVE  LET n == Moved(m, p, s)
         IN  Pool(n) /\ Same(m, n, p) /\ Stays(m, n, p) /\ n.owner = m.owner /\ n.state[p] = s
<1>1. m \in LwType
  BY DEF Pool, Linked
<1>2. p \in Pcbs
  BY <1>1, LwParts
<1> DEFINE n == Moved(m, p, s)
<1>3. /\ n \in LwType /\ n.free = m.free /\ n.active = m.active
      /\ n.tw = m.tw /\ n.bound = m.bound /\ n.owner = m.owner
      /\ n.state = [m.state EXCEPT ![p] = s]
  BY <1>1, <1>2, MovedParts
<1> HIDE DEF n
<1>4. n.state[p] = s /\ \A q \in Pcbs \ {p} : n.state[q] = m.state[q]
  BY <1>1, <1>2, <1>3, LwParts
<1>5. Linked(n) /\ p \notin n.tw
  BY <1>2, <1>3 DEF Pool, Linked, Placed
<1>6. \A q \in Pcbs : Stated(n, q)
  BY <1>3, <1>4, <1>5 DEF Pool, Stated
<1>7. Same(m, n, p) /\ Stays(m, n, p)
  BY <1>3, <1>4 DEF Same, Stays
<1> QED BY <1>3, <1>4, <1>5, <1>6, <1>7 DEF Pool, n

\* A pcb that is freed once comes into the pool and leaves every list.
LEMMA FreedPool ==
  ASSUME NEW m, Linked(m), NEW p \in Pcbs, p \notin ToSet(m.free),
         \A q \in Pcbs \ {p} : Stated(m, q)
  PROVE  LET n == Freed(m, p)
         IN  Pool(n) /\ Same(m, n, p) /\ p \in ToSet(n.free)
<1>1. m \in LwType
  BY DEF Linked
<1> DEFINE n == Freed(m, p)
<1>2. /\ n \in LwType
      /\ n.free = <<p>> \o m.free /\ n.active = Without(m.active, p)
      /\ n.tw = m.tw \ {p} /\ n.bound = m.bound \ {p}
      /\ n.owner = [m.owner EXCEPT ![p] = "none"]
      /\ \A q \in Pcbs \ {p} : n.state[q] = m.state[q]
  BY <1>1, FreedParts
<1> HIDE DEF n
<1>3. m.free \in Seq(Pcbs) /\ m.active \in Seq(Pcbs) /\ IsInjective(m.free) /\ IsInjective(m.active)
  BY <1>1, LwParts DEF Linked
<1>4. ToSet(n.free) = {p} \cup ToSet(m.free) /\ IsInjective(n.free)
  BY <1>2, <1>3, Pushed
<1>5. ToSet(n.active) = ToSet(m.active) \ {p} /\ IsInjective(n.active)
  BY <1>2, <1>3, WithoutSet
<1>6. \A q \in Pcbs \ {p} : n.owner[q] = m.owner[q]
  BY <1>1, <1>2, LwParts
<1>7. Same(m, n, p)
  BY <1>2, <1>4, <1>5, <1>6 DEF Same
<1>8. \A q \in Pcbs : Placed(n, q)
  BY <1>2, <1>4, <1>5 DEF Linked, Placed
<1>9. \A q \in Pcbs : Stated(n, q)
  BY <1>2, <1>4, <1>5, <1>6 DEF Stated
<1> QED BY <1>2, <1>4, <1>5, <1>7, <1>8, <1>9 DEF Pool, Linked, n

\* tcp_pcb_remove, whose interim state is seen by none.
LEMMA RemovedPool ==
  ASSUME NEW m, Pool(m), NEW p \in Pcbs, p \notin ToSet(m.free)
  PROVE  LET n == Removed(m, p)
         IN  Pool(n) /\ Same(m, n, p) /\ p \in ToSet(n.free)
<1>1. m \in LwType /\ "CLOSED" \in States
  BY DEF Pool, Linked, States
<1> DEFINE k == Moved(m, p, "CLOSED")
<1>2. /\ k \in LwType /\ k.free = m.free /\ k.active = m.active
      /\ k.tw = m.tw /\ k.bound = m.bound /\ k.owner = m.owner
      /\ k.state = [m.state EXCEPT ![p] = "CLOSED"]
  BY <1>1, MovedParts
<1>3. Removed(m, p) = Freed(k, p)
  BY DEF Removed
<1> HIDE DEF k
<1>4. \A q \in Pcbs \ {p} : k.state[q] = m.state[q]
  BY <1>1, <1>2, LwParts
<1>5. Linked(k)
  BY <1>2 DEF Pool, Linked, Placed
<1>6. \A q \in Pcbs \ {p} : Stated(k, q)
  BY <1>2, <1>4 DEF Pool, Stated
<1> DEFINE n == Freed(k, p)
<1>7. Pool(n) /\ Same(k, n, p) /\ p \in ToSet(n.free)
  BY <1>2, <1>5, <1>6, FreedPool
<1> HIDE DEF n
<1>8. Same(m, n, p)
  BY <1>2, <1>4, <1>7 DEF Same
<1> QED BY <1>3, <1>7, <1>8 DEF n

\* A pcb that goes on to the TIME_WAIT list.
LEMMA TimeWaitPool ==
  ASSUME NEW m, Pool(m), NEW p \in ToSet(m.active)
  PROVE  LET n == TimeWait(m, p)
         IN  /\ Pool(n) /\ Same(m, n, p) /\ p \in n.tw /\ n.owner = m.owner
             /\ n.state[p] = "TIME_WAIT"
<1>1. m \in LwType
  BY DEF Pool, Linked
<1>2. p \in Pcbs
  BY <1>1, LwParts
<1> DEFINE n == TimeWait(m, p)
<1>3. /\ n \in LwType
      /\ n.free = m.free /\ n.active = Without(m.active, p)
      /\ n.tw = m.tw \cup {p} /\ n.bound = m.bound
      /\ n.owner = m.owner /\ n.state = [m.state EXCEPT ![p] = "TIME_WAIT"]
  BY <1>1, <1>2, TimeWaitParts
<1> HIDE DEF n
<1>4. ToSet(n.active) = ToSet(m.active) \ {p} /\ IsInjective(n.active)
  BY <1>1, <1>3, LwParts, WithoutSet DEF Pool, Linked
<1>5. n.state[p] = "TIME_WAIT" /\ \A q \in Pcbs \ {p} : n.state[q] = m.state[q]
  BY <1>1, <1>2, <1>3, LwParts
<1>6. Same(m, n, p)
  BY <1>3, <1>4, <1>5 DEF Same
<1>7. \A q \in Pcbs : Placed(n, q)
  BY <1>2, <1>3, <1>4 DEF Pool, Linked, Placed
<1>8. \A q \in Pcbs : Stated(n, q)
  BY <1>3, <1>4, <1>5 DEF Pool, Stated
<1> QED BY <1>3, <1>4, <1>5, <1>6, <1>7, <1>8 DEF Pool, Linked, n

\* The result of tcp_new or of a SYN, put in front of the active list.
Opened(p, s, o) == [Allocated(p, s, o) EXCEPT !.active = <<p>> \o @]

\* Such a pcb is taken from wherever it was.
LEMMA OpenedPool ==
  ASSUME Pool(lw), NEW p \in Pcbs, p \notin lw.bound,
         NEW s, s \in States \ {"CLOSED", "TIME_WAIT"},
         NEW o, o \in {"none", "client", "server"},
         s = "SYN_SENT" => o = "client", s = "SYN_RCVD" => o = "none"
  PROVE  LET n == Opened(p, s, o)
         IN  /\ Pool(n) /\ Same(lw, n, p) /\ p \in ToSet(n.active)
             /\ n.state[p] = s /\ n.owner[p] = o
<1>1. lw \in LwType /\ s \in States /\ o \in {"none", "client", "server"}
  BY DEF Pool, Linked
<1> DEFINE k == Allocated(p, s, o)
<1>2. /\ k \in LwType
      /\ k.free = Without(lw.free, p) /\ k.active = Without(lw.active, p)
      /\ k.tw = lw.tw \ {p} /\ k.bound = lw.bound
      /\ k.owner = [lw.owner EXCEPT ![p] = o] /\ k.state = [lw.state EXCEPT ![p] = s]
  BY <1>1, AllocatedParts
<1> HIDE DEF k
<1> DEFINE n == [k EXCEPT !.active = <<p>> \o @]
<1>3. /\ <<p>> \o k.active \in Seq(Pcbs)
      /\ ToSet(k.active) = ToSet(lw.active) \ {p} /\ IsInjective(k.active)
      /\ ToSet(k.free) = ToSet(lw.free) \ {p} /\ IsInjective(k.free)
  BY <1>1, <1>2, LwParts, WithoutSet, Pushed DEF Pool, Linked
<1>4. /\ n \in LwType /\ n.free = k.free /\ n.active = <<p>> \o k.active
      /\ n.tw = k.tw /\ n.bound = k.bound /\ n.owner = k.owner /\ n.state = k.state
  BY <1>2, <1>3 DEF LwType
<1> HIDE DEF n
<1>5. ToSet(n.active) = {p} \cup ToSet(lw.active) /\ IsInjective(n.active)
  BY <1>2, <1>3, <1>4, LwParts, Pushed
<1>6. /\ n.state[p] = s /\ n.owner[p] = o
      /\ \A q \in Pcbs \ {p} : n.state[q] = lw.state[q] /\ n.owner[q] = lw.owner[q]
  BY <1>1, <1>2, <1>4, LwParts
<1>7. Same(lw, n, p)
  BY <1>2, <1>3, <1>4, <1>5, <1>6 DEF Same
<1>8. \A q \in Pcbs : Placed(n, q)
  BY <1>2, <1>3, <1>4, <1>5 DEF Pool, Linked, Placed
<1>9. \A q \in Pcbs : Stated(n, q)
  BY <1>2, <1>4, <1>5, <1>6 DEF Pool, Stated
<1> QED BY <1>3, <1>4, <1>5, <1>6, <1>7, <1>8, <1>9 DEF Pool, Linked, Opened, n, k

\* A pcb whose SYN found no memory is left bound.
LEMMA BoundPool ==
  ASSUME Pool(lw), NEW p \in Pcbs
  PROVE  LET n == [Allocated(p, "CLOSED", "client") EXCEPT !.bound = @ \cup {p}]
         IN  Pool(n) /\ Same(lw, n, p) /\ p \in n.bound /\ n.owner[p] = "client"
<1>1. lw \in LwType /\ "CLOSED" \in States
  BY DEF Pool, Linked, States
<1> DEFINE k == Allocated(p, "CLOSED", "client")
           n == [k EXCEPT !.bound = @ \cup {p}]
<1>2. /\ k \in LwType
      /\ k.free = Without(lw.free, p) /\ k.active = Without(lw.active, p)
      /\ k.tw = lw.tw \ {p} /\ k.bound = lw.bound
      /\ k.owner = [lw.owner EXCEPT ![p] = "client"]
      /\ k.state = [lw.state EXCEPT ![p] = "CLOSED"]
  BY <1>1, AllocatedParts
<1> HIDE DEF k
<1>3. /\ ToSet(k.active) = ToSet(lw.active) \ {p} /\ IsInjective(k.active)
      /\ ToSet(k.free) = ToSet(lw.free) \ {p} /\ IsInjective(k.free)
  BY <1>1, <1>2, LwParts, WithoutSet DEF Pool, Linked
<1>4. k.bound \cup {p} \in SUBSET Pcbs
  BY <1>1, <1>2, LwParts
<1>5. /\ n \in LwType /\ n.free = k.free /\ n.active = k.active
      /\ n.tw = k.tw /\ n.bound = k.bound \cup {p} /\ n.owner = k.owner /\ n.state = k.state
  BY <1>2, <1>4 DEF LwType
<1> HIDE DEF n
<1>6. /\ n.owner[p] = "client"
      /\ \A q \in Pcbs \ {p} : n.state[q] = lw.state[q] /\ n.owner[q] = lw.owner[q]
  BY <1>1, <1>2, <1>5, LwParts
<1>7. Same(lw, n, p)
  BY <1>2, <1>3, <1>5, <1>6 DEF Same
<1>8. \A q \in Pcbs : Placed(n, q)
  BY <1>2, <1>3, <1>5 DEF Pool, Linked, Placed
<1>9. \A q \in Pcbs : Stated(n, q)
  BY <1>2, <1>3, <1>5, <1>6 DEF Pool, Stated
<1> QED BY <1>3, <1>5, <1>6, <1>7, <1>8, <1>9 DEF Pool, Linked, n, k

\* The pcb that tcp_alloc takes is free or, if the pool is empty, one it kills.
LEMMA Taken ==
  ASSUME Pool(lw), NEW p \in Candidates
  PROVE  /\ p \in Pcbs /\ p \notin lw.bound
         /\ Killed(p) => /\ p \in ToSet(lw.active) \cup lw.tw
                         /\ lw.state[p] = "TIME_WAIT" => p \notin ToSet(lw.active)
         /\ ~Killed(p) => p \in ToSet(lw.free)
<1>1. lw \in LwType
  BY DEF Pool, Linked
<1>2. lw.free # <<>> => Head(lw.free) \in ToSet(lw.free)
  BY <1>1, LwParts, Rest DEF Pool, Linked
<1>3. p \in Pcbs
  BY <1>1, <1>2, LwParts DEF Candidates
<1> QED BY <1>2, <1>3 DEF Candidates, Killed, Pool, Linked, Placed, Stated

\* The connection that tcpserver_accept takes.
LEMMA AcceptedPool ==
  ASSUME Pool(lw), NEW p \in ToSet(lw.active)
  PROVE  LET n == [Moved(lw, p, "ESTABLISHED") EXCEPT !.owner[p] = "server"]
         IN  /\ Pool(n) /\ Same(lw, n, p) /\ Stays(lw, n, p) /\ n.free = lw.free
             /\ n.state[p] = "ESTABLISHED" /\ n.owner[p] = "server"
<1>1. lw \in LwType
  BY DEF Pool, Linked
<1>2. p \in Pcbs
  BY <1>1, LwParts
<1> DEFINE k == Moved(lw, p, "ESTABLISHED")
           n == [k EXCEPT !.owner[p] = "server"]
<1>3. Pool(k) /\ Same(lw, k, p) /\ Stays(lw, k, p) /\ k.owner = lw.owner /\ k.state[p] = "ESTABLISHED"
  BY MovedPool DEF States
<1>4. k.free = lw.free
  BY DEF Moved
<1> HIDE DEF k
<1>5. k \in LwType
  BY <1>3 DEF Pool, Linked
<1>6. /\ n \in LwType /\ n.free = k.free /\ n.active = k.active
      /\ n.tw = k.tw /\ n.bound = k.bound /\ n.owner = [k.owner EXCEPT ![p] = "server"]
      /\ n.state = k.state
  BY <1>2, <1>5 DEF LwType
<1> HIDE DEF n
<1>7. n.owner[p] = "server" /\ \A q \in Pcbs \ {p} : n.owner[q] = k.owner[q]
  BY <1>2, <1>5, <1>6, LwParts
<1>8. Linked(n)
  BY <1>3, <1>6 DEF Pool, Linked, Placed
<1>9. \A q \in Pcbs : Stated(n, q)
  BY <1>3, <1>6, <1>7 DEF Pool, Stated
<1>10. Same(lw, n, p) /\ Stays(lw, n, p)
  BY <1>3, <1>6, <1>7 DEF Same, Stays
<1> QED BY <1>3, <1>4, <1>6, <1>7, <1>8, <1>9, <1>10 DEF Pool, n, k

\* The same of any lists, for the close through a handle of a freed pcb.
LEMMA AcceptedTyped ==
  ASSUME lw \in LwType, NEW p \in Pcbs
  PROVE  [Moved(lw, p, "ESTABLISHED") EXCEPT !.owner[p] = "server"] \in LwType
<1> DEFINE k == Moved(lw, p, "ESTABLISHED")
<1>1. k \in LwType
  BY MovedParts DEF States
<1> HIDE DEF k
<1> QED BY <1>1 DEF LwType, k

\* tcp_close of a pcb that is in use and not being connected frees nothing: it
\* sends a FIN where one is due.
LEMMA ClosedPool ==
  ASSUME NEW m, Pool(m), NEW p \in Pcbs, p \in ToSet(m.active) \cup m.tw,
         m.state[p] # "SYN_SENT"
  PROVE  LET n == Closed(m, p)
         IN  /\ Pool(n) /\ Same(m, n, p) /\ Stays(m, n, p) /\ n.free = m.free
             /\ n.owner = m.owner
             /\ n.state[p] \notin
                  {"CLOSED", "SYN_SENT", "SYN_RCVD", "ESTABLISHED", "CLOSE_WAIT"}
<1>1. Same(m, m, p) /\ Stays(m, m, p)
  BY DEF Same, Stays
<1>2. m.state[p] # "CLOSED" /\ (p \notin ToSet(m.active) => m.state[p] = "TIME_WAIT")
  BY DEF Pool, Stated
<1>3. CASE m.state[p] \in {"SYN_RCVD", "ESTABLISHED"}
  <2>1. Closed(m, p) = Moved(m, p, "FIN_WAIT") /\ p \in ToSet(m.active)
    BY <1>2, <1>3 DEF Closed
  <2>2. Moved(m, p, "FIN_WAIT").free = m.free
    BY DEF Moved
  <2>3. "FIN_WAIT" \in States \ {"CLOSED", "TIME_WAIT", "SYN_SENT", "SYN_RCVD"}
    BY DEF States
  <2> QED BY <2>1, <2>2, <2>3, MovedPool
<1>4. CASE m.state[p] = "CLOSE_WAIT"
  <2>1. Closed(m, p) = Moved(m, p, "LAST_ACK") /\ p \in ToSet(m.active)
    BY <1>2, <1>4 DEF Closed
  <2>2. Moved(m, p, "LAST_ACK").free = m.free
    BY DEF Moved
  <2>3. "LAST_ACK" \in States \ {"CLOSED", "TIME_WAIT", "SYN_SENT", "SYN_RCVD"}
    BY DEF States
  <2> QED BY <2>1, <2>2, <2>3, MovedPool
<1>5. CASE m.state[p] \notin {"SYN_RCVD", "ESTABLISHED", "CLOSE_WAIT"}
  <2>1. Closed(m, p) = m
    BY <1>2, <1>5 DEF Closed
  <2> QED BY <1>1, <1>2, <1>5, <2>1
<1> QED BY <1>3, <1>4, <1>5

\* tcp_close of any pcb, be it freed or not.
LEMMA ClosedTyped ==
  ASSUME NEW m, m \in LwType, NEW p \in Pcbs
  PROVE  Closed(m, p) \in LwType
<1>1. /\ Moved(m, p, "CLOSED") \in LwType /\ Moved(m, p, "FIN_WAIT") \in LwType
      /\ Moved(m, p, "LAST_ACK") \in LwType
  BY MovedParts DEF States
<1>2. Freed(m, p) \in LwType /\ Removed(m, p) \in LwType
  BY <1>1, FreedParts DEF Removed
<1> QED BY <1>1, <1>2 DEF Closed

-----------------------------------------------------------------------------
(* The handles and the request: what a step that changes one pcb may do.   *)

\* A step of lwIP and its callbacks on the pcb p.
Moves(p) ==
  /\ Pool(lw') /\ Same(lw, lw', p)
  /\ UNCHANGED <<handles, bogus, age>>
  /\ dangling \subseteq dangling' /\ dangling' \subseteq dangling \cup Handles({p})
  /\ fails' \in 0..MaxFails /\ (fails' = 0 => fails = 0)

\* The pcb goes back to the pool, or to someone else.
Gone(p) ==
  /\ Handles({p}) \subseteq dangling'
  /\ p \in ToSet(lw'.active) => lw'.owner[p] # "server"

\* The pcb stays with its owner, and gets no nearer to standing.
Kept(p) ==
  /\ p \in ToSet(lw.active) /\ p \in ToSet(lw'.active) \cup lw'.tw
  /\ lw'.owner[p] = lw.owner[p] /\ dangling' = dangling
  /\ lw'.state[p] = lw.state[p] \/ lw'.state[p] \notin {"CLOSED", "SYN_SENT", "SYN_RCVD"}
  /\ lw'.state[p] \in {"ESTABLISHED", "CLOSE_WAIT"} /\ fails' = 0 =>
       lw.state[p] \in {"ESTABLISHED", "CLOSE_WAIT"} \/ lw.owner[p] # "server"
  /\ Alive(lw', p) => Alive(lw, p)

\* The request is left alone only if the client's connection is.
Request(p) ==
  \/ Undisturbed /\ (p = s_tcpclient_pcb /\ Link => Link')
  \/ Asks(p) /\ (p = s_tcpclient_pcb => ~Link')
  \/ Withdraws /\ (p = s_tcpclient_pcb /\ Link => Link')

\* The facts of the invariant that the steps below rest on.
LEMMA Known ==
  ASSUME IInv, ~bogus
  PROVE  /\ lw \in LwType /\ Pool(lw) /\ todo \in Seq(Pcbs) /\ Walk
         /\ ServerHandle /\ ClientHandle /\ Pending /\ ServesOne /\ LinkKnown
         /\ s_tcpclient_pcb \in Pcbs /\ g_tcpaccept_pcb \in Pcbs \cup {NULL}
         /\ s_iNeedReconnectTcp \in BOOLEAN /\ misled \in BOOLEAN /\ forgotten \in BOOLEAN
         /\ bogus \in BOOLEAN /\ age \in 0..Passes /\ dangling \subseteq {"client", "server"}
         /\ fails \in 0..MaxFails
BY DEF IInv, TypeOK, Pool, Linked, ClientHandle

\* The pool does not contain 0, and what points to one pcb.
LEMMA NoPcb == NULL \notin Pcbs
BY TcpLinkAssumption DEF NULL, Pcbs

\* What a set of one pcb has to do with the handles.
LEMMA HandlesOf ==
  ASSUME NEW p
  PROVE  /\ "client" \in Handles({p}) <=> s_tcpclient_pcb = p
         /\ "server" \in Handles({p}) <=> g_tcpaccept_pcb = p
         /\ Handles({p}) \subseteq {"client", "server"}
BY DEF Handles

\* The handles after the step.
LEMMA HandlesKept ==
  ASSUME IInv, ~bogus, NEW p \in Pcbs, Moves(p), Gone(p) \/ Kept(p)
  PROVE  /\ ServerHandle' /\ ClientHandle' /\ ServesOne'
         /\ Link' => Link
         /\ p # s_tcpclient_pcb /\ Link => Link'
         /\ p = s_tcpclient_pcb /\ Gone(p) => ~Link'
<1> DEFINE s == s_tcpclient_pcb
           g == g_tcpaccept_pcb
<1>1. s' = s /\ g' = g /\ s \in Pcbs /\ g \in Pcbs \cup {NULL} /\ bogus' = bogus
  BY Known DEF Moves, handles
<1>2. /\ dangling \subseteq dangling' /\ dangling' \subseteq dangling \cup Handles({p})
      /\ Same(lw, lw', p) /\ Pool(lw') /\ Pool(lw)
      /\ ServerHandle /\ ClientHandle /\ ServesOne
  BY Known DEF Moves
<1>3. /\ "client" \in dangling => "client" \in dangling'
      /\ "server" \in dangling => "server" \in dangling'
      /\ p # s => ("client" \in dangling' => "client" \in dangling)
      /\ p # g => ("server" \in dangling' => "server" \in dangling)
      /\ p = s /\ Gone(p) => "client" \in dangling'
      /\ p = g /\ Gone(p) => "server" \in dangling'
  BY <1>2, HandlesOf DEF Gone
<1>4. ServerHandle'
  <2>0. g = NULL => "server" \notin dangling'
    BY <1>2, <1>3, NoPcb DEF ServerHandle
  <2>1. SUFFICES ASSUME "server" \notin dangling', g # NULL
                 PROVE  /\ g \in ToSet(lw'.active) \cup lw'.tw /\ lw'.owner[g] = "server"
                        /\ lw'.state[g] \notin {"CLOSED", "SYN_SENT", "SYN_RCVD"}
    BY <1>1, <2>0 DEF ServerHandle
  <2>2. /\ g \in Pcbs /\ g \in ToSet(lw.active) \cup lw.tw /\ lw.owner[g] = "server"
        /\ lw.state[g] \notin {"CLOSED", "SYN_SENT", "SYN_RCVD"}
    BY <1>1, <1>2, <1>3, <2>1 DEF ServerHandle
  <2>3. CASE p # g
    BY <1>2, <2>2, <2>3 DEF Same
  <2>4. CASE p = g
    BY <1>3, <2>1, <2>2, <2>4 DEF Kept
  <2> QED BY <2>3, <2>4
<1>5. ClientHandle'
  <2>1. SUFFICES ASSUME "client" \notin dangling'
                 PROVE  s \notin ToSet(lw'.free) /\ lw'.owner[s] = "client"
    BY <1>1 DEF ClientHandle
  <2>2. s \notin ToSet(lw.free) /\ lw.owner[s] = "client"
    BY <1>2, <1>3, <2>1 DEF ClientHandle
  <2>3. CASE p # s
    BY <1>1, <1>2, <2>2, <2>3 DEF Same
  <2>4. CASE p = s
    BY <1>1, <1>2, <1>3, <2>1, <2>2, <2>4 DEF Kept, Pool, Linked, Placed
  <2> QED BY <2>3, <2>4
<1>6. ServesOne'
  <2>1. SUFFICES ASSUME fails' = 0, NEW q \in ToSet(lw'.active), lw'.owner[q] = "server",
                        lw'.state[q] \in {"ESTABLISHED", "CLOSE_WAIT"}
                 PROVE  q = g /\ "server" \notin dangling'
    BY <1>1 DEF ServesOne
  <2>2. q \in Pcbs /\ fails = 0
    BY <1>2, <2>1, LwParts DEF Moves, Pool, Linked
  <2>3. CASE q # p
    <3>1. /\ q \in ToSet(lw.active) /\ lw.owner[q] = "server"
          /\ lw.state[q] \in {"ESTABLISHED", "CLOSE_WAIT"}
      BY <1>2, <2>1, <2>2, <2>3 DEF Same
    <3>2. q = g /\ "server" \notin dangling
      BY <1>2, <2>2, <3>1 DEF ServesOne
    <3> QED BY <1>3, <2>3, <3>2
  <2>4. CASE q = p
    <3>1. Kept(p) /\ ~Gone(p)
      BY <2>1, <2>4 DEF Gone
    <3>2. /\ p \in ToSet(lw.active) /\ lw.owner[p] = "server"
          /\ lw.state[p] \in {"ESTABLISHED", "CLOSE_WAIT"}
      BY <2>1, <2>4, <3>1 DEF Kept
    <3>3. q = g /\ "server" \notin dangling
      BY <1>2, <2>2, <2>4, <3>2 DEF ServesOne
    <3> QED BY <2>1, <2>4, <3>1, <3>3 DEF Kept
  <2> QED BY <2>3, <2>4
<1>7. Link' => Link
  <2>1. SUFFICES ASSUME "client" \notin dangling', Alive(lw', s) PROVE Link
    BY <1>1 DEF Link
  <2>2. "client" \notin dangling /\ s # NULL
    BY <1>1, <1>3, <2>1, NoPcb
  <2>3. CASE p # s
    BY <1>1, <1>2, <2>1, <2>2, <2>3 DEF Same, Alive, Link
  <2>4. CASE p = s
    BY <1>3, <2>1, <2>2, <2>4 DEF Kept, Link
  <2> QED BY <2>3, <2>4
<1>8. ASSUME p # s, Link PROVE Link'
  <2>1. "client" \notin dangling' /\ s # NULL /\ Alive(lw', s)
    BY <1>1, <1>2, <1>3, <1>8 DEF Same, Alive, Link
  <2> QED BY <1>1, <2>1 DEF Link
<1>9. ASSUME p = s, Gone(p) PROVE ~Link'
  BY <1>3, <1>9 DEF Link
<1> QED BY <1>4, <1>5, <1>6, <1>7, <1>8, <1>9

\* The whole invariant after the step: outside tcp_slowtmr, and within it, where
\* the pcb it has looked at can no longer be the connection that waits for it.
LEMMA Preserved ==
  ASSUME IInv, ~bogus, NEW p \in Pcbs, Moves(p), Gone(p) \/ Kept(p), Request(p),
         \/ todo = <<>> /\ todo' = todo
         \/ /\ todo # <<>> /\ p = Head(todo) /\ todo' = Tail(todo)
            /\ p = s_tcpclient_pcb /\ s_iNeedReconnectTcp' => ~Link'
  PROVE  IInv'
<1> DEFINE s == s_tcpclient_pcb
<1>1. /\ s' = s /\ g_tcpaccept_pcb' = g_tcpaccept_pcb /\ bogus' = bogus /\ age' = age
      /\ Pool(lw') /\ lw' \in LwType
  BY DEF Moves, handles, Pool, Linked
<1>2. /\ ServerHandle' /\ ClientHandle' /\ ServesOne'
      /\ Link' => Link
      /\ p # s /\ Link => Link'
  BY HandlesKept
<1>3. /\ todo' \in Seq(Pcbs) /\ Walk'
      /\ \A q \in Pcbs : todo # <<>> /\ q \in ToSet(todo) /\ q # p => q \in ToSet(todo')
  <2>1. CASE todo = <<>> /\ todo' = todo
    <3>1. ToSet(todo') = {} /\ IsInjective(todo') /\ todo' \in Seq(Pcbs)
      BY <2>1 DEF ToSet, IsInjective
    <3> QED BY <2>1, <3>1 DEF Walk
  <2>2. CASE todo # <<>> /\ p = Head(todo) /\ todo' = Tail(todo)
    <3>1. /\ todo' \in Seq(Pcbs) /\ IsInjective(todo')
          /\ ToSet(todo') = ToSet(todo) \ {p}
      BY <2>2, Known, Rest DEF Walk
    <3>2. ToSet(todo') \subseteq ToSet(lw'.active)
      BY <3>1, Known, LwParts DEF Walk, Moves, Same
    <3> QED BY <3>1, <3>2 DEF Walk
  <2> QED BY <2>1, <2>2
<1>4. Link /\ ~(p = s /\ ~(Link')) => Link'
  BY <1>2
<1>5. /\ s_iNeedReconnectTcp' \in BOOLEAN /\ misled' \in BOOLEAN /\ forgotten' \in BOOLEAN
  BY Known DEF Request, Undisturbed, Asks, Withdraws, request
<1>6. TypeOK'
  <2>1. dangling' \subseteq {"client", "server"}
    BY Known, HandlesOf DEF Moves
  <2>2. /\ {s_tcpclient_pcb', g_tcpaccept_pcb'} \subseteq Pcbs \cup {NULL}
        /\ age' \in 0..Passes /\ fails' \in 0..MaxFails /\ bogus' \in BOOLEAN
    BY <1>1, Known DEF Moves
  <2> QED BY <1>1, <1>3, <1>5, <2>1, <2>2 DEF TypeOK, LwType
<1>7. LinkKnown'
  <2>1. SUFFICES ASSUME ~(s_iNeedReconnectTcp'), ~(forgotten') PROVE Link'
    BY <1>1, <1>2 DEF LinkKnown, ClientHandle, Link
  <2>2. CASE Undisturbed /\ (p = s /\ Link => Link')
    <3>1. Link
      BY <2>1, <2>2, Known DEF Undisturbed, request, LinkKnown
    <3> QED BY <1>2, <2>2, <3>1
  <2>3. CASE Asks(p)
    BY <2>1, <2>3 DEF Asks
  <2>4. CASE Withdraws /\ (p = s /\ Link => Link')
    <3>1. ~forgotten /\ (s_iNeedReconnectTcp => Link)
      BY <2>1, <2>4, Known DEF Withdraws
    <3>2. Link
      BY <3>1, Known DEF LinkKnown
    <3> QED BY <1>2, <2>4, <3>2
  <2> QED BY <2>2, <2>3, <2>4 DEF Request
<1>8. Pending'
  <2>1. SUFFICES ASSUME s_iNeedReconnectTcp', Link', ~(misled')
                 PROVE  (age' = 0 /\ todo' = <<>>) \/ s \in ToSet(todo')
    BY <1>1 DEF Pending
  <2>2. s_iNeedReconnectTcp /\ ~misled
    <3>1. CASE Undisturbed
      BY <2>1, <3>1, Known DEF Undisturbed, request
    <3>2. CASE Asks(p) /\ (p = s => ~Link')
      BY <1>2, <2>1, <3>2, Known DEF Asks
    <3>3. CASE Withdraws
      BY <2>1, <3>3 DEF Withdraws
    <3> QED BY <3>1, <3>2, <3>3 DEF Request
  <2>3. (age = 0 /\ todo = <<>>) \/ s \in ToSet(todo)
    BY <1>2, <2>1, <2>2, Known DEF Pending
  <2>4. CASE todo = <<>> /\ todo' = todo
    BY <1>1, <2>3, <2>4
  <2>5. CASE todo # <<>> /\ (p = s /\ s_iNeedReconnectTcp' => ~Link')
    BY <1>3, <2>1, <2>3, <2>5, Known
  <2> QED BY <2>4, <2>5
<1> QED BY <1>1, <1>2, <1>3, <1>6, <1>7, <1>8 DEF IInv

-----------------------------------------------------------------------------
(* The events of lwIP.                                                     *)

\* A callback that finds its connection at an end: it asks, if it is the client's.
LEMMA ErrAsks ==
  ASSUME IInv, ~bogus, NEW p \in Pcbs, Moves(p), Gone(p) \/ ~Alive(lw', p), conn_err(p)
  PROVE  Request(p)
<1>1. p = s_tcpclient_pcb => ~Link'
  BY HandlesKept DEF Moves, handles, Link
<1>2. CASE lw.owner[p] = "client"
  BY <1>1, <1>2 DEF conn_err, Request
<1>3. CASE lw.owner[p] # "client"
  BY <1>3, Known DEF conn_err, Request, ClientHandle, Link
<1> QED BY <1>1, <1>2, <1>3

\* The steps that free a pcb which was in a list.
LEMMA FreesOne ==
  ASSUME IInv, ~bogus, NEW p \in Pcbs, Pool(lw'), Same(lw, lw', p), p \in ToSet(lw'.free),
         Frees({p}), UNCHANGED <<handles, bogus, age, fails>>
  PROVE  Moves(p) /\ Gone(p)
<1>1. p \notin ToSet(lw'.active)
  BY DEF Pool, Linked, Placed
<1> QED BY <1>1, Known DEF Moves, Gone, Frees

\* The steps that leave a pcb in use.
LEMMA KeepsOne ==
  ASSUME IInv, ~bogus, NEW p \in Pcbs, Pool(lw'), Same(lw, lw', p),
         UNCHANGED <<handles, bogus, age, dangling>>,
         fails' = fails \/ (fails < MaxFails /\ fails' = fails + 1)
  PROVE  Moves(p)
<1>1. fails' \in 0..MaxFails /\ (fails' = 0 => fails = 0)
  BY Known, TcpLinkAssumption
<1> QED BY <1>1, Known DEF Moves

\* A SYN, whose pcb tcp_alloc may take from a connection.
LEMMA SynStep ==
  ASSUME IInv, Syn
  PROVE  IInv'
<1>1. ~bogus /\ todo = <<>> /\ todo' = todo
  BY DEF Syn, Input
<1>2. PICK p \in Candidates :
          /\ lw' = [Allocated(p, "SYN_RCVD", "none") EXCEPT !.active = <<p>> \o @]
          /\ IF Killed(p) /\ lw.state[p] # "TIME_WAIT" THEN conn_err(p) ELSE Undisturbed
          /\ IF Killed(p) THEN Frees({p}) ELSE UNCHANGED dangling
  BY DEF Syn
<1>3. /\ p \in Pcbs /\ p \notin lw.bound
      /\ Killed(p) => /\ p \in ToSet(lw.active) \cup lw.tw
                      /\ lw.state[p] = "TIME_WAIT" => p \notin ToSet(lw.active)
      /\ ~Killed(p) => p \in ToSet(lw.free)
  BY <1>1, Known, Taken
<1>4. /\ Pool(lw') /\ Same(lw, lw', p) /\ p \in ToSet(lw'.active) /\ lw'.owner[p] = "none"
  <2> DEFINE n == Opened(p, "SYN_RCVD", "none")
  <2>1. Pool(lw) /\ "SYN_RCVD" \in States \ {"CLOSED", "TIME_WAIT"}
    BY <1>1, Known DEF States
  <2>2. Pool(n) /\ Same(lw, n, p) /\ p \in ToSet(n.active) /\ n.owner[p] = "none"
    BY <1>3, <2>1, OpenedPool
  <2> QED BY <1>2, <2>2 DEF Opened
<1>5. ~Killed(p) => Handles({p}) \subseteq dangling
  <2>1. SUFFICES ASSUME p \in ToSet(lw.free) PROVE Handles({p}) \subseteq dangling
    BY <1>3
  <2>2. p \notin ToSet(lw.active) \cup lw.tw
    BY <1>1, <1>3, <2>1, Known DEF Pool, Linked, Placed
  <2>3. p = s_tcpclient_pcb => "client" \in dangling
    BY <1>1, <2>1, Known DEF ClientHandle
  <2>4. p = g_tcpaccept_pcb => "server" \in dangling
    BY <1>1, <1>3, <2>2, Known, NoPcb DEF ServerHandle
  <2> QED BY <2>3, <2>4, HandlesOf
<1>6. Moves(p)
  BY <1>1, <1>2, <1>4, Known DEF Syn, Moves, Frees
<1>7. Gone(p)
  BY <1>2, <1>4, <1>5 DEF Gone, Frees
<1>8. Request(p)
  <2>1. CASE Killed(p) /\ lw.state[p] # "TIME_WAIT"
    BY <1>1, <1>2, <1>3, <1>6, <1>7, <2>1, ErrAsks
  <2>2. CASE ~(Killed(p) /\ lw.state[p] # "TIME_WAIT")
    <3>1. p \notin ToSet(lw.active)
      BY <1>1, <1>3, <2>2, Known DEF Pool, Linked, Placed
    <3> QED BY <1>2, <2>2, <3>1 DEF Request, Link, Alive
  <2> QED BY <2>1, <2>2
<1> QED BY <1>1, <1>3, <1>6, <1>7, <1>8, Preserved

\* The SYN of the client is answered.
LEMMA ConnectedStep ==
  ASSUME IInv, NEW p \in ToSet(lw.active), Connected(p)
  PROVE  IInv'
<1>1. /\ ~bogus /\ todo = <<>> /\ todo' = todo /\ lw.state[p] = "SYN_SENT"
      /\ lw' = Moved(lw, p, "ESTABLISHED") /\ Withdraws
      /\ UNCHANGED <<handles, age, dangling, bogus, fails>>
  BY DEF Connected, Input
<1>2. p \in Pcbs
  BY <1>1, Known, LwParts
<1>3. /\ Pool(lw') /\ Same(lw, lw', p) /\ Stays(lw, lw', p) /\ lw'.owner = lw.owner
      /\ lw'.state[p] = "ESTABLISHED"
  BY <1>1, Known, MovedPool DEF States
<1>4. Moves(p)
  BY <1>1, <1>2, <1>3, KeepsOne
<1>5. Kept(p)
  BY <1>1, <1>2, <1>3, Known DEF Kept, Stays, Alive, Pool, Stated
<1>6. Link => Link'
  <2>1. p # s_tcpclient_pcb /\ Link => Link'
    BY <1>1, <1>2, <1>4, <1>5, HandlesKept
  <2>2. ASSUME p = s_tcpclient_pcb, Link PROVE Link'
    BY <1>1, <1>3, <2>2 DEF Link, Alive, Stays, handles
  <2> QED BY <2>1, <2>2
<1>7. Request(p)
  BY <1>1, <1>6 DEF Request
<1> QED BY <1>1, <1>2, <1>4, <1>5, <1>7, Preserved

\* A reset, or data for a connection that is no longer the handle's.
LEMMA RemovedStep ==
  ASSUME IInv, NEW p \in ToSet(lw.active), Data(p) \/ Rst(p)
  PROVE  IInv'
<1>1. /\ ~bogus /\ todo = <<>> /\ todo' = todo
      /\ lw' = Removed(lw, p) /\ Frees({p}) /\ conn_err(p)
      /\ UNCHANGED <<handles, age, bogus, fails>>
  BY DEF Data, Rst, Input
<1>2. p \in Pcbs /\ p \notin ToSet(lw.free)
  BY <1>1, Known, LwParts DEF Pool, Linked, Placed
<1>3. Pool(lw') /\ Same(lw, lw', p) /\ p \in ToSet(lw'.free)
  BY <1>1, <1>2, Known, RemovedPool
<1>4. Moves(p) /\ Gone(p)
  BY <1>1, <1>2, <1>3, FreesOne
<1>5. Request(p)
  BY <1>1, <1>2, <1>4, ErrAsks
<1> QED BY <1>1, <1>2, <1>4, <1>5, Preserved

\* A pcb that is no connection of the client's can go without a word.
LEMMA QuietlyGone ==
  ASSUME IInv, ~bogus, NEW p \in Pcbs, ~Alive(lw, p), Undisturbed
  PROVE  Request(p)
BY DEF Request, Link

\* The last acknowledgement.
LEMMA FinAckedStep ==
  ASSUME IInv, NEW p \in ToSet(lw.active), FinAcked(p)
  PROVE  IInv'
<1>1. /\ ~bogus /\ todo = <<>> /\ todo' = todo /\ Undisturbed
      /\ UNCHANGED <<handles, age, bogus, fails>>
      /\ lw.state[p] \in {"CLOSING", "LAST_ACK"}
  BY DEF FinAcked, Input, Undisturbed
<1>2. p \in Pcbs /\ p \notin ToSet(lw.free)
  BY <1>1, Known, LwParts DEF Pool, Linked, Placed
<1>3. Request(p)
  BY <1>1, <1>2, QuietlyGone DEF Alive
<1>4. CASE lw' = TimeWait(lw, p) /\ UNCHANGED dangling
  <2>1. /\ Pool(lw') /\ Same(lw, lw', p) /\ p \in lw'.tw /\ lw'.owner = lw.owner
        /\ lw'.state[p] = "TIME_WAIT"
    BY <1>1, <1>4, Known, TimeWaitPool
  <2>2. Moves(p)
    BY <1>1, <1>2, <1>4, <2>1, KeepsOne
  <2>3. Kept(p)
    BY <1>4, <2>1 DEF Kept, Alive
  <2> QED BY <1>1, <1>2, <1>3, <2>2, <2>3, Preserved
<1>5. CASE lw' = Removed(lw, p) /\ Frees({p})
  <2>1. Pool(lw') /\ Same(lw, lw', p) /\ p \in ToSet(lw'.free)
    BY <1>1, <1>2, <1>5, Known, RemovedPool
  <2>2. Moves(p) /\ Gone(p)
    BY <1>1, <1>2, <1>5, <2>1, FreesOne
  <2> QED BY <1>1, <1>2, <1>3, <2>2, Preserved
<1> QED BY <1>4, <1>5 DEF FinAcked

\* The end of TIME_WAIT.
LEMMA TimeWaitOverStep ==
  ASSUME IInv, TimeWaitOver
  PROVE  IInv'
<1>1. /\ ~bogus /\ todo = <<>> /\ todo' = todo /\ Undisturbed
      /\ UNCHANGED <<handles, age, bogus, fails>>
  BY DEF TimeWaitOver, Input, Undisturbed
<1>2. PICK p \in lw.tw : lw' = Freed(lw, p) /\ Frees({p})
  BY DEF TimeWaitOver
<1>3. p \in Pcbs /\ p \notin ToSet(lw.free) /\ p \notin ToSet(lw.active)
  BY <1>1, Known, LwParts DEF Pool, Linked, Placed
<1>4. Pool(lw') /\ Same(lw, lw', p) /\ p \in ToSet(lw'.free)
  BY <1>1, <1>2, <1>3, Known, FreedPool DEF Pool
<1>5. Moves(p) /\ Gone(p)
  BY <1>1, <1>2, <1>3, <1>4, FreesOne
<1>6. Request(p)
  BY <1>1, <1>3, QuietlyGone DEF Alive
<1> QED BY <1>1, <1>3, <1>5, <1>6, Preserved

\* Two changes of one pcb are one.
LEMMA SameTwice ==
  ASSUME NEW a, NEW b, NEW c, NEW p, Same(a, b, p), Same(b, c, p)
  PROVE  Same(a, c, p)
BY DEF Same

\* The end of the peer's data is told to the callback, which closes the pcb if
\* it waits for that, frees it if both sides have closed, and asks.
LEMMA RecvNullStep ==
  ASSUME IInv, ~bogus, todo = <<>>, UNCHANGED <<todo, handles, age, bogus>>,
         NEW p \in ToSet(lw.active), NEW m, Pool(m), Same(lw, m, p), m.owner = lw.owner,
         p \in ToSet(m.active) \cup m.tw, m.state[p] \in {"CLOSE_WAIT", "CLOSING", "TIME_WAIT"},
         m.state[p] = "CLOSE_WAIT" => lw.state[p] = "ESTABLISHED",
         recv_null(m, p)
  PROVE  IInv'
<1>1. p \in Pcbs /\ p \notin ToSet(m.free)
  BY Known, LwParts DEF Pool, Linked, Placed
<1>2. conn_err(p)
  BY DEF recv_null, conn_err
<1>3. CASE m.state[p] = "TIME_WAIT"
  <2>1. lw' = Freed(m, p) /\ Frees({p}) /\ UNCHANGED fails
    BY <1>3 DEF recv_null
  <2>2. Pool(lw') /\ Same(m, lw', p) /\ p \in ToSet(lw'.free)
    BY <1>1, <2>1, FreedPool DEF Pool
  <2>3. Moves(p) /\ Gone(p)
    BY <1>1, <2>1, <2>2, SameTwice, FreesOne
  <2>4. Request(p)
    BY <1>1, <1>2, <2>3, ErrAsks
  <2> QED BY <1>1, <2>3, <2>4, Preserved
<1>4. CASE m.state[p] # "TIME_WAIT"
  <2>1. /\ Pool(lw') /\ Same(lw, lw', p) /\ lw'.owner = lw.owner /\ dangling' = dangling
        /\ p \in ToSet(lw'.active) \cup lw'.tw
        /\ lw'.state[p] \notin {"CLOSED", "SYN_SENT", "SYN_RCVD", "ESTABLISHED"}
        /\ lw'.state[p] = "CLOSE_WAIT" => lw.state[p] = "ESTABLISHED"
        /\ fails' = fails \/ (fails < MaxFails /\ fails' = fails + 1)
    <3>1. CASE m.state[p] = "CLOSE_WAIT" /\ lw' = Closed(m, p) /\ UNCHANGED fails
      <4>1. dangling' = dangling
        BY <3>1 DEF recv_null
      <4>2. /\ Pool(lw') /\ Same(m, lw', p) /\ Stays(m, lw', p) /\ lw'.owner = m.owner
            /\ lw'.state[p] \notin {"CLOSED", "SYN_SENT", "SYN_RCVD", "ESTABLISHED", "CLOSE_WAIT"}
        BY <1>1, <3>1, ClosedPool
      <4>3. Same(lw, lw', p)
        BY <4>2, SameTwice
      <4> QED BY <3>1, <4>1, <4>2, <4>3 DEF Stays
    <3>2. CASE /\ m.state[p] = "CLOSE_WAIT" /\ lw' = m
               /\ fails < MaxFails /\ fails' = fails + 1
      BY <3>2 DEF recv_null
    <3>3. CASE m.state[p] # "CLOSE_WAIT"
      BY <1>4, <3>3 DEF recv_null
    <3> QED BY <3>1, <3>2, <3>3 DEF recv_null, tcp_close
  <2>2. Moves(p)
    BY <1>1, <2>1, KeepsOne
  <2>3. Kept(p) /\ ~Alive(lw', p)
    BY <2>1 DEF Kept, Alive
  <2>4. Request(p)
    BY <1>1, <1>2, <2>2, <2>3, ErrAsks
  <2> QED BY <1>1, <2>2, <2>3, <2>4, Preserved
<1> QED BY <1>3, <1>4

\* The end of the peer's data.
LEMMA FinStep ==
  ASSUME IInv, NEW p \in ToSet(lw.active), Fin(p)
  PROVE  IInv'
<1>1. ~bogus /\ todo = <<>> /\ UNCHANGED <<todo, handles, age, bogus>> /\ Pool(lw)
  BY Known DEF Fin, Input
<1>2. CASE lw.state[p] = "ESTABLISHED" /\ recv_null(Moved(lw, p, "CLOSE_WAIT"), p)
  <2> DEFINE m == Moved(lw, p, "CLOSE_WAIT")
  <2>1. /\ Pool(m) /\ Same(lw, m, p) /\ Stays(lw, m, p) /\ m.owner = lw.owner
        /\ m.state[p] = "CLOSE_WAIT"
    BY <1>1, MovedPool DEF States
  <2> HIDE DEF m
  <2> QED BY <1>1, <1>2, <2>1, RecvNullStep DEF m, Stays
<1>3. CASE lw.state[p] = "FIN_WAIT" /\ recv_null(Moved(lw, p, "CLOSING"), p)
  <2> DEFINE m == Moved(lw, p, "CLOSING")
  <2>1. /\ Pool(m) /\ Same(lw, m, p) /\ Stays(lw, m, p) /\ m.owner = lw.owner
        /\ m.state[p] = "CLOSING"
    BY <1>1, MovedPool DEF States
  <2> HIDE DEF m
  <2> QED BY <1>1, <1>3, <2>1, RecvNullStep DEF m, Stays
<1>4. CASE lw.state[p] = "FIN_WAIT" /\ recv_null(TimeWait(lw, p), p)
  <2> DEFINE m == TimeWait(lw, p)
  <2>1. /\ Pool(m) /\ Same(lw, m, p) /\ p \in m.tw /\ m.owner = lw.owner
        /\ m.state[p] = "TIME_WAIT"
    BY <1>1, TimeWaitPool
  <2> HIDE DEF m
  <2> QED BY <1>1, <1>4, <2>1, RecvNullStep DEF m
<1> QED BY <1>2, <1>3, <1>4 DEF Fin

\* The start of tcp_slowtmr: the connection, if it stands, is among those it
\* will look at.
LEMMA SlowTimerStep ==
  ASSUME IInv, SlowTimer
  PROVE  IInv'
<1>1. /\ ~bogus /\ todo' = lw.active /\ age' \in 0..Passes /\ lw' = lw
      /\ UNCHANGED <<s_tcpclient_pcb, g_tcpaccept_pcb, s_iNeedReconnectTcp, misled, forgotten,
                     dangling, bogus, fails>>
  BY Known, TcpLinkAssumption DEF SlowTimer, Input, handles, request, IInv
<1>2. TypeOK'
  BY <1>1, Known, LwParts DEF IInv, TypeOK
<1>3. Pool(lw') /\ Walk'
  BY <1>1, Known DEF Pool, Linked, Walk
<1>4. Link' <=> Link
  BY <1>1 DEF Link, Alive
<1>5. Pending'
  BY <1>1, <1>4 DEF Pending, Link, Alive
<1>6. ServerHandle' /\ ClientHandle' /\ ServesOne'
  BY <1>1, Known DEF ServerHandle, ClientHandle, ServesOne
<1>7. LinkKnown'
  BY <1>1, <1>4, Known DEF LinkKnown
<1> QED BY <1>1, <1>2, <1>3, <1>5, <1>6, <1>7 DEF IInv

\* The poll of a pcb: a close that is due, and the client's request taken back.
LEMMA PollKeeps ==
  ASSUME IInv, ~bogus, UNCHANGED <<handles, age, bogus, dangling>>,
         NEW p \in ToSet(lw.active), poll(p)
  PROVE  Moves(p) /\ Kept(p) /\ (p = s_tcpclient_pcb /\ Link => Link')
<1>1. p \in Pcbs /\ Pool(lw)
  BY Known, LwParts
<1>2. CASE lw' = lw
  <2>1. fails' = fails \/ (fails < MaxFails /\ fails' = fails + 1)
    BY DEF poll, tcp_close
  <2>2. Same(lw, lw', p) /\ Pool(lw')
    BY <1>1, <1>2 DEF Same
  <2>3. Moves(p)
    BY <1>1, <2>1, <2>2, KeepsOne
  <2>4. Kept(p)
    BY <1>2 DEF Kept
  <2>5. Link => Link'
    BY <1>2 DEF Link, Alive, handles
  <2> QED BY <2>3, <2>4, <2>5
<1>3. CASE lw.state[p] = "CLOSE_WAIT" /\ lw' = Closed(lw, p) /\ UNCHANGED fails
  <2>1. /\ Pool(lw') /\ Same(lw, lw', p) /\ Stays(lw, lw', p) /\ lw'.owner = lw.owner
        /\ lw'.state[p] \notin {"CLOSED", "SYN_SENT", "SYN_RCVD", "ESTABLISHED", "CLOSE_WAIT"}
    BY <1>1, <1>3, ClosedPool
  <2>2. Moves(p)
    BY <1>1, <1>3, <2>1, KeepsOne
  <2>3. Kept(p)
    BY <2>1 DEF Kept, Stays, Alive
  <2>4. p = s_tcpclient_pcb => ~Link
    BY <1>3 DEF Link, Alive
  <2> QED BY <2>2, <2>3, <2>4
<1> QED BY <1>2, <1>3 DEF poll, tcp_close

\* One pcb of tcp_slowtmr: a timeout, or a poll.
LEMMA SlowPcbStep ==
  ASSUME IInv, SlowPcb
  PROVE  IInv'
<1> DEFINE p == Head(todo)
<1>1. todo # <<>> /\ todo' = Tail(todo) /\ UNCHANGED <<handles, age, bogus>> /\ ~bogus
  BY DEF SlowPcb, IInv
<1>2. p \in ToSet(lw.active) /\ p \in Pcbs /\ p \notin ToSet(lw.free)
  BY <1>1, Known, Rest, LwParts DEF Walk, Pool, Linked, Placed
<1>3. Timeout(p) \/ Poll(p) \/ Skip(p)
  BY DEF SlowPcb
<1> HIDE DEF p
<1>4. CASE Timeout(p)
  <2>1. lw' = Freed(lw, p) /\ Frees({p}) /\ conn_err(p) /\ UNCHANGED fails
    BY <1>4 DEF Timeout
  <2>2. Pool(lw') /\ Same(lw, lw', p) /\ p \in ToSet(lw'.free)
    BY <1>1, <1>2, <2>1, Known, FreedPool DEF Pool
  <2>3. Moves(p) /\ Gone(p)
    BY <1>1, <1>2, <2>1, <2>2, FreesOne
  <2>4. Request(p)
    BY <1>1, <1>2, <2>1, <2>3, ErrAsks
  <2>5. p = s_tcpclient_pcb => ~Link'
    BY <1>1, <1>2, <2>3, HandlesKept
  <2> QED BY <1>1, <1>2, <2>3, <2>4, <2>5, Preserved DEF p
<1>5. CASE Poll(p)
  <2>1. poll(p) /\ dangling' = dangling
    BY <1>5 DEF Poll
  <2>2. Moves(p) /\ Kept(p) /\ (p = s_tcpclient_pcb /\ Link => Link')
    BY <1>1, <1>2, <2>1, PollKeeps
  <2>3. lw.owner[p] = "client" => Withdraws
    BY <2>1 DEF poll
  <2>4. lw.owner[p] # "client" => Undisturbed
    BY <2>1 DEF poll
  <2>5. Request(p)
    BY <2>2, <2>3, <2>4 DEF Request
  <2>6. Link' => Link
    BY <1>1, <1>2, <2>2, HandlesKept
  <2>7. p = s_tcpclient_pcb /\ s_iNeedReconnectTcp' => ~Link'
    BY <1>1, <2>3, <2>6, Known DEF Withdraws, ClientHandle, Link
  <2> QED BY <1>1, <1>2, <2>2, <2>5, <2>7, Preserved DEF p
<1>6. CASE Skip(p)
  <2>1. /\ lw' = lw /\ dangling' = dangling /\ fails' = fails /\ Undisturbed
        /\ lw.owner[p] = "none"
    BY <1>6 DEF Skip, Undisturbed
  <2>2. Pool(lw') /\ Same(lw, lw', p)
    BY <1>1, <2>1, Known DEF Same
  <2>3. Moves(p)
    BY <1>1, <1>2, <2>1, <2>2, KeepsOne
  <2>4. Kept(p)
    BY <1>2, <2>1 DEF Kept
  <2>5. p = s_tcpclient_pcb => ~Link
    BY <1>1, <2>1, Known DEF ClientHandle, Link
  <2>6. Request(p)
    BY <2>1, <2>5 DEF Request
  <2>7. p = s_tcpclient_pcb => ~Link'
    BY <1>1, <1>2, <2>3, <2>4, <2>5, HandlesKept
  <2> QED BY <1>1, <1>2, <2>3, <2>4, <2>6, <2>7, Preserved DEF p
<1> QED BY <1>3, <1>4, <1>5, <1>6

\* tcpserver_accept, whose handle may be of a freed pcb: what is wrong from then
\* on is no more than the types allow.
LEMMA AcceptedTypes ==
  ASSUME IInv, NEW p \in ToSet(lw.active), Accepted(p)
  PROVE  TypeOK' /\ todo' = <<>>
<1> DEFINE g == g_tcpaccept_pcb
           m == [Moved(lw, p, "ESTABLISHED") EXCEPT !.owner[p] = "server"]
<1>1. /\ ~bogus /\ todo = <<>> /\ todo' = todo
      /\ s_tcpclient_pcb' = s_tcpclient_pcb /\ g_tcpaccept_pcb' = p /\ age' = age
      /\ UNCHANGED <<s_iNeedReconnectTcp, misled, forgotten>>
  BY DEF Accepted, Input, request
<1>2. p \in Pcbs /\ m \in LwType
  BY <1>1, Known, LwParts, AcceptedTyped
<1>3. CASE g = NULL
  <2>1. lw' = m /\ UNCHANGED <<dangling, bogus, fails>>
    BY <1>3 DEF Accepted
  <2> HIDE DEF m
  <2> QED BY <1>1, <1>2, <2>1, Known DEF TypeOK, LwType
<1>4. CASE g # NULL
  <2>1. /\ tcp_close(m, g, lw') /\ bogus' = (bogus \/ "server" \in dangling)
        /\ dangling' = (dangling \cup Handles(ToSet(lw'.free) \ ToSet(lw.free))) \ {"server"}
    BY <1>4 DEF Accepted
  <2> HIDE DEF m
  <2>2. g \in Pcbs
    BY <1>1, <1>4, Known
  <2>3. lw' \in LwType
    BY <1>2, <2>1, <2>2, ClosedTyped DEF tcp_close
  <2>4. fails' \in 0..MaxFails
    BY <1>1, <2>1, Known, TcpLinkAssumption DEF tcp_close
  <2>5. dangling' \subseteq {"client", "server"}
    BY <1>1, <2>1, Known DEF Handles
  <2>6. bogus' \in BOOLEAN
    BY <2>1
  <2> QED BY <1>1, <1>2, <2>3, <2>4, <2>5, <2>6, Known DEF TypeOK, LwType
<1> QED BY <1>1, <1>3, <1>4

\* What it does while the handle's pcb is still the server's.
LEMMA AcceptedKeeps ==
  ASSUME IInv, NEW p \in ToSet(lw.active), Accepted(p), ~(bogus')
  PROVE  /\ Pool(lw') /\ dangling' = dangling /\ "server" \notin dangling
         /\ p \in ToSet(lw'.active) /\ lw'.state[p] = "ESTABLISHED" /\ lw'.owner[p] = "server"
         /\ p # g_tcpaccept_pcb
         /\ \A q \in Pcbs : /\ q \in ToSet(lw'.active) <=> q \in ToSet(lw.active)
                            /\ q \in ToSet(lw'.free) <=> q \in ToSet(lw.free)
         /\ \A q \in Pcbs \ {p} : lw'.owner[q] = lw.owner[q]
         /\ \A q \in Pcbs \ {p, g_tcpaccept_pcb} : lw'.state[q] = lw.state[q]
         /\ g_tcpaccept_pcb # NULL => lw.owner[g_tcpaccept_pcb] = "server"
         /\ g_tcpaccept_pcb # NULL /\ fails' = 0 =>
              lw'.state[g_tcpaccept_pcb] \notin {"ESTABLISHED", "CLOSE_WAIT"}
         /\ fails' = 0 => fails = 0
<1> DEFINE g == g_tcpaccept_pcb
           m == [Moved(lw, p, "ESTABLISHED") EXCEPT !.owner[p] = "server"]
<1>1. ~bogus /\ lw.state[p] = "SYN_RCVD"
  BY DEF Accepted, Input
<1>2. /\ Pool(m) /\ Same(lw, m, p) /\ Stays(lw, m, p) /\ m.free = lw.free
      /\ m.state[p] = "ESTABLISHED" /\ m.owner[p] = "server"
  BY <1>1, Known, AcceptedPool
<1>3. p \in Pcbs /\ p # NULL
  BY <1>1, Known, LwParts, NoPcb
<1>4. CASE g = NULL
  <2>1. lw' = m /\ UNCHANGED <<dangling, bogus, fails>>
    BY <1>4 DEF Accepted
  <2> HIDE DEF m
  <2>2. "server" \notin dangling
    BY <1>1, <1>4, Known DEF ServerHandle
  <2> QED BY <1>2, <1>3, <1>4, <2>1, <2>2 DEF Same, Stays
<1>5. CASE g # NULL
  <2>1. /\ tcp_close(m, g, lw') /\ "server" \notin dangling
        /\ dangling' = (dangling \cup Handles(ToSet(lw'.free) \ ToSet(lw.free))) \ {"server"}
    BY <1>5 DEF Accepted
  <2> HIDE DEF m
  <2>2. /\ g \in Pcbs /\ g \in ToSet(lw.active) \cup lw.tw /\ lw.owner[g] = "server"
        /\ lw.state[g] \notin {"CLOSED", "SYN_SENT", "SYN_RCVD"}
    BY <1>1, <1>5, <2>1, Known DEF ServerHandle
  <2>3. g # p
    BY <1>1, <2>2
  <2>4. g \in ToSet(m.active) \cup m.tw /\ m.state[g] = lw.state[g] /\ m.owner[g] = "server"
    BY <1>2, <2>2, <2>3 DEF Same
  <2>5. /\ Pool(lw') /\ Same(m, lw', g) /\ Stays(m, lw', g) /\ lw'.free = m.free
        /\ lw'.owner = m.owner
        /\ fails' = 0 => fails = 0 /\ lw'.state[g] \notin {"ESTABLISHED", "CLOSE_WAIT"}
    <3>1. CASE lw' = Closed(m, g) /\ UNCHANGED fails
      BY <1>2, <2>2, <2>4, <3>1, ClosedPool
    <3>2. CASE lw' = m /\ fails' = fails + 1
      <4>1. fails' # 0
        BY <1>1, <3>2, Known, TcpLinkAssumption
      <4>2. Same(m, lw', g) /\ Stays(m, lw', g)
        BY <3>2 DEF Same, Stays
      <4> QED BY <1>2, <3>2, <4>1, <4>2
    <3> QED BY <2>1, <3>1, <3>2 DEF tcp_close
  <2>6. dangling' = dangling
    <3>1. ToSet(lw'.free) \ ToSet(lw.free) = {}
      BY <1>2, <2>5
    <3>2. Handles({}) = {}
      BY DEF Handles
    <3> QED BY <2>1, <3>1, <3>2
  <2>7. p \in ToSet(lw'.active) /\ lw'.state[p] = "ESTABLISHED" /\ lw'.owner[p] = "server"
    BY <1>2, <1>3, <2>3, <2>5 DEF Same, Stays
  <2>8. \A q \in Pcbs : /\ q \in ToSet(lw'.active) <=> q \in ToSet(lw.active)
                        /\ q \in ToSet(lw'.free) <=> q \in ToSet(lw.free)
    BY <1>2, <2>5 DEF Same, Stays
  <2>9. \A q \in Pcbs \ {p} : lw'.owner[q] = lw.owner[q]
    BY <1>2, <2>5 DEF Same
  <2>10. \A q \in Pcbs \ {p, g} : lw'.state[q] = lw.state[q]
    BY <1>2, <2>5 DEF Same
  <2> QED BY <2>1, <2>2, <2>3, <2>5, <2>6, <2>7, <2>8, <2>9, <2>10
<1> QED BY <1>4, <1>5

\* A connection to the server is taken.
LEMMA AcceptedStep ==
  ASSUME IInv, NEW p \in ToSet(lw.active), Accepted(p)
  PROVE  IInv'
<1> DEFINE s == s_tcpclient_pcb
           g == g_tcpaccept_pcb
<1>1. /\ ~bogus /\ todo = <<>> /\ todo' = todo /\ lw.state[p] = "SYN_RCVD"
      /\ s' = s /\ g' = p /\ age' = age
      /\ UNCHANGED <<s_iNeedReconnectTcp, misled, forgotten>>
  BY DEF Accepted, Input, request
<1>2. TypeOK' /\ todo' = <<>>
  BY AcceptedTypes
<1>3. CASE bogus'
  BY <1>2, <1>3 DEF IInv
<1>4. CASE ~(bogus')
  <2>1. /\ Pool(lw') /\ dangling' = dangling /\ "server" \notin dangling
        /\ p \in ToSet(lw'.active) /\ lw'.state[p] = "ESTABLISHED" /\ lw'.owner[p] = "server"
        /\ p # g
        /\ \A q \in Pcbs : /\ q \in ToSet(lw'.active) <=> q \in ToSet(lw.active)
                           /\ q \in ToSet(lw'.free) <=> q \in ToSet(lw.free)
        /\ \A q \in Pcbs \ {p} : lw'.owner[q] = lw.owner[q]
        /\ \A q \in Pcbs \ {p, g} : lw'.state[q] = lw.state[q]
        /\ g # NULL => lw.owner[g] = "server"
        /\ g # NULL /\ fails' = 0 => lw'.state[g] \notin {"ESTABLISHED", "CLOSE_WAIT"}
        /\ fails' = 0 => fails = 0
    BY <1>4, AcceptedKeeps
  <2>2. /\ p \in Pcbs /\ p # NULL /\ lw.owner[p] = "none" /\ s \in Pcbs /\ s # NULL
    BY <1>1, Known, LwParts, NoPcb DEF Pool, Stated
  <2>3. "client" \notin dangling => /\ s \notin ToSet(lw.free) /\ lw.owner[s] = "client"
                                    /\ s # p /\ s # g
    BY <1>1, <2>1, <2>2, Known DEF ClientHandle
  <2>4. ServerHandle'
    BY <1>1, <2>1, <2>2 DEF ServerHandle
  <2>5. ClientHandle'
    BY <1>1, <2>1, <2>2, <2>3 DEF ClientHandle
  <2>6. Link' <=> Link
    BY <1>1, <2>1, <2>2, <2>3 DEF Link, Alive
  <2>7. ServesOne'
    <3>1. SUFFICES ASSUME fails' = 0, NEW q \in ToSet(lw'.active), lw'.owner[q] = "server",
                          lw'.state[q] \in {"ESTABLISHED", "CLOSE_WAIT"}
                   PROVE  q = p
      BY <1>1, <2>1 DEF ServesOne
    <3>2. SUFFICES ASSUME q # p PROVE FALSE
      OBVIOUS
    <3>3. q \in Pcbs
      BY <2>1, <3>1, LwParts DEF Pool, Linked
    <3>4. q # g
      BY <2>1, <3>1, <3>3, NoPcb
    <3> QED BY <1>1, <2>1, <3>1, <3>2, <3>3, <3>4, Known DEF ServesOne
  <2>8. LinkKnown'
    BY <1>1, <2>5, <2>6, Known DEF LinkKnown, Link, ClientHandle
  <2>9. Pending'
    BY <1>1, <2>6, Known DEF Pending
  <2>10. Walk'
    BY <1>2 DEF Walk, ToSet, IsInjective
  <2> QED BY <1>2, <1>4, <2>1, <2>4, <2>5, <2>7, <2>8, <2>9, <2>10 DEF IInv
<1> QED BY <1>3, <1>4

\* tcpclient_period: the new connection is one pcb as well, and takes the
\* client's handle with it.
LEMMA PeriodStep ==
  ASSUME IInv, tcpclient_period
  PROVE  IInv'
<1> DEFINE g == g_tcpaccept_pcb
<1>1. /\ ~bogus /\ bogus' = bogus /\ todo = <<>> /\ todo' = todo /\ s_iNeedReconnectTcp
      /\ age' = 0 /\ forgotten' = FALSE /\ g' = g
      /\ UNCHANGED <<s_iNeedReconnectTcp, misled>>
  BY DEF tcpclient_period, Input
<1>2. PICK p \in Candidates :
          /\ Connects(p) \/ ConnectFails(p)
          /\ s_tcpclient_pcb' = p
          /\ dangling' = (dangling \cup (IF Killed(p) THEN Handles({p}) ELSE {})) \ {"client"}
  BY DEF tcpclient_period
<1>3. /\ p \in Pcbs /\ p \notin lw.bound /\ p # NULL
      /\ Killed(p) => p \in ToSet(lw.active) \cup lw.tw
      /\ ~Killed(p) => p \in ToSet(lw.free)
  BY <1>1, Known, Taken, NoPcb
<1>4. /\ Pool(lw') /\ Same(lw, lw', p) /\ p \in ToSet(lw'.active) \cup lw'.bound
      /\ lw'.owner[p] = "client" /\ fails' \in 0..MaxFails /\ (fails' = 0 => fails = 0)
  <2>1. CASE Connects(p)
    <3> DEFINE n == Opened(p, "SYN_SENT", "client")
    <3>1. Pool(lw) /\ "SYN_SENT" \in States \ {"CLOSED", "TIME_WAIT"}
      BY <1>1, Known DEF States
    <3>2. Pool(n) /\ Same(lw, n, p) /\ p \in ToSet(n.active) /\ n.owner[p] = "client"
      BY <1>3, <3>1, OpenedPool
    <3> QED BY <1>1, <2>1, <3>2, Known DEF Connects, Opened
  <2>2. CASE ConnectFails(p)
    <3> DEFINE n == [Allocated(p, "CLOSED", "client") EXCEPT !.bound = @ \cup {p}]
    <3>1. Pool(n) /\ Same(lw, n, p) /\ p \in n.bound /\ n.owner[p] = "client"
      BY <1>1, <1>3, Known, BoundPool
    <3>2. lw' = n
      BY <2>2 DEF ConnectFails
    <3> HIDE DEF n
    <3>3. fails' \in 0..MaxFails /\ fails' # 0
      BY <1>1, <2>2, Known, TcpLinkAssumption DEF ConnectFails
    <3> QED BY <3>1, <3>2, <3>3
  <2> QED BY <1>2, <2>1, <2>2
<1>5. /\ "client" \notin dangling' /\ dangling' \subseteq {"client", "server"}
      /\ "server" \in dangling => "server" \in dangling'
      /\ p # g => ("server" \in dangling' => "server" \in dangling)
      /\ p = g /\ Killed(p) => "server" \in dangling'
  BY <1>1, <1>2, Known, HandlesOf
<1>6. ServerHandle'
  <2>0. g = NULL => "server" \notin dangling'
    BY <1>1, <1>3, <1>5, Known DEF ServerHandle
  <2>1. SUFFICES ASSUME "server" \notin dangling', g # NULL
                 PROVE  /\ g \in ToSet(lw'.active) \cup lw'.tw /\ lw'.owner[g] = "server"
                        /\ lw'.state[g] \notin {"CLOSED", "SYN_SENT", "SYN_RCVD"}
    BY <1>1, <2>0 DEF ServerHandle
  <2>2. /\ g \in Pcbs /\ g \in ToSet(lw.active) \cup lw.tw /\ lw.owner[g] = "server"
        /\ lw.state[g] \notin {"CLOSED", "SYN_SENT", "SYN_RCVD"}
    BY <1>1, <1>5, <2>1, Known DEF ServerHandle
  <2>3. p # g
    BY <1>1, <1>3, <1>5, <2>1, <2>2, Known DEF Pool, Linked, Placed
  <2> QED BY <1>4, <2>2, <2>3 DEF Same
<1>7. ClientHandle'
  BY <1>2, <1>3, <1>4 DEF ClientHandle, Pool, Linked, Placed
<1>8. ServesOne'
  <2>1. SUFFICES ASSUME fails' = 0, NEW q \in ToSet(lw'.active), lw'.owner[q] = "server",
                        lw'.state[q] \in {"ESTABLISHED", "CLOSE_WAIT"}
                 PROVE  q = g /\ "server" \notin dangling'
    BY <1>1 DEF ServesOne
  <2>2. q \in Pcbs /\ q # p /\ fails = 0
    BY <1>4, <2>1, LwParts DEF Pool, Linked
  <2>3. /\ q \in ToSet(lw.active) /\ lw.owner[q] = "server"
        /\ lw.state[q] \in {"ESTABLISHED", "CLOSE_WAIT"}
    BY <1>4, <2>1, <2>2 DEF Same
  <2>4. q = g /\ "server" \notin dangling
    BY <1>1, <2>2, <2>3, Known DEF ServesOne
  <2> QED BY <1>5, <2>2, <2>4
<1>9. LinkKnown'
  BY <1>1 DEF LinkKnown
<1>10. Pending' /\ Walk'
  BY <1>1 DEF Pending, Walk, ToSet, IsInjective
<1>11. TypeOK'
  <2>1. /\ s_tcpclient_pcb' \in Pcbs /\ g' \in Pcbs \cup {NULL}
        /\ lw' \in LwType /\ todo' \in Seq(Pcbs)
    BY <1>1, <1>2, <1>3, <1>4, Known DEF Pool, Linked
  <2>2. /\ s_iNeedReconnectTcp' \in BOOLEAN /\ misled' \in BOOLEAN
        /\ forgotten' \in BOOLEAN /\ bogus' \in BOOLEAN
    BY <1>1, Known
  <2>3. age' \in 0..Passes
    BY <1>1, TcpLinkAssumption
  <2> QED BY <1>4, <1>5, <2>1, <2>2, <2>3 DEF TypeOK, LwType
<1> QED BY <1>1, <1>4, <1>6, <1>7, <1>8, <1>9, <1>10, <1>11 DEF IInv

-----------------------------------------------------------------------------
(* The theorems.                                                           *)

\* After tcpclient_init and tcpserver_init.
LEMMA InitIInv ==
  ASSUME Init
  PROVE  IInv
<1> DEFINE f == [i \in 1..(N - 1) |-> i + 1]
<1>1. N \in Nat /\ N >= 1 /\ Passes \in Nat /\ MaxFails \in Nat /\ Pcbs = 1..N
  BY TcpLinkAssumption DEF Pcbs
<1>2. f \in Seq(Pcbs) /\ DOMAIN f = 1..(N - 1) /\ Len(f) = N - 1
  BY <1>1
<1>3. \A i \in 1..(N - 1) : f[i] = i + 1
  OBVIOUS
<1>4. /\ lw.free = f /\ lw.active = <<1>> /\ lw.tw = {} /\ lw.bound = {}
      /\ lw.state = [p \in Pcbs |-> IF p = 1 THEN "SYN_SENT" ELSE "CLOSED"]
      /\ lw.owner = [p \in Pcbs |-> IF p = 1 THEN "client" ELSE "none"]
      /\ lw \in LwType
  <2>1. <<1>> \in Seq(Pcbs)
    BY <1>1
  <2> HIDE DEF f
  <2>2. lw = [free |-> f, active |-> <<1>>, tw |-> {}, bound |-> {},
              state |-> [p \in Pcbs |-> IF p = 1 THEN "SYN_SENT" ELSE "CLOSED"],
              owner |-> [p \in Pcbs |-> IF p = 1 THEN "client" ELSE "none"]]
    BY DEF Init, f
  <2> QED BY <1>2, <2>1, <2>2 DEF LwType, States
<1> HIDE DEF f
<1>5. IsInjective(lw.free)
  BY <1>1, <1>2, <1>3, <1>4 DEF IsInjective
<1>6. \A q \in Pcbs : q \in ToSet(lw.free) <=> q # 1
  <2>1. ASSUME NEW q \in Pcbs, q # 1 PROVE q \in ToSet(lw.free)
    <3>1. q - 1 \in 1..(N - 1) /\ (q - 1) + 1 = q
      BY <1>1, <2>1
    <3> QED BY <1>2, <1>3, <1>4, <3>1 DEF ToSet
  <2>2. 1 \notin ToSet(lw.free)
    BY <1>1, <1>2, <1>3, <1>4 DEF ToSet
  <2> QED BY <2>1, <2>2
<1>7. ToSet(lw.active) = {1} /\ IsInjective(lw.active)
  BY <1>4 DEF ToSet, IsInjective
<1>8. Pool(lw)
  BY <1>1, <1>4, <1>5, <1>6, <1>7 DEF Pool, Linked, Placed, Stated
<1>9. /\ s_tcpclient_pcb = 1 /\ g_tcpaccept_pcb = NULL
      /\ todo = <<>> /\ s_iNeedReconnectTcp = FALSE /\ age = Passes
      /\ dangling = {} /\ bogus = FALSE /\ misled = FALSE /\ forgotten = FALSE /\ fails = 0
  BY DEF Init
<1>10. ServerHandle /\ ClientHandle
  BY <1>1, <1>4, <1>6, <1>9 DEF ServerHandle, ClientHandle
<1>11. Link
  BY <1>1, <1>4, <1>7, <1>9, NoPcb DEF Link, Alive
<1>12. Pending /\ LinkKnown
  BY <1>1, <1>4, <1>9, <1>11 DEF Pending, LinkKnown
<1>13. ServesOne
  BY <1>1, <1>4, <1>7 DEF ServesOne
<1>14. Walk
  BY <1>9 DEF Walk, ToSet, IsInjective
<1>15. TypeOK
  <2>1. todo \in Seq(Pcbs) /\ age \in 0..Passes /\ fails \in 0..MaxFails
    BY <1>1, <1>9
  <2>2. {s_tcpclient_pcb, g_tcpaccept_pcb} \subseteq Pcbs \cup {NULL}
    BY <1>1, <1>9
  <2>3. {s_iNeedReconnectTcp, misled, forgotten, bogus} \subseteq BOOLEAN
    BY <1>9
  <2> QED BY <1>4, <1>9, <2>1, <2>2, <2>3 DEF TypeOK, LwType
<1> QED BY <1>8, <1>9, <1>10, <1>12, <1>13, <1>14, <1>15 DEF IInv

\* A step that changes nothing.
LEMMA Unchanged ==
  ASSUME IInv, UNCHANGED vars
  PROVE  IInv'
<1>1. /\ lw' = lw /\ todo' = todo /\ s_tcpclient_pcb' = s_tcpclient_pcb
      /\ g_tcpaccept_pcb' = g_tcpaccept_pcb /\ s_iNeedReconnectTcp' = s_iNeedReconnectTcp
      /\ misled' = misled /\ forgotten' = forgotten /\ age' = age /\ dangling' = dangling
      /\ bogus' = bogus /\ fails' = fails
  BY DEF vars, handles, request
<1>2. TypeOK'
  BY <1>1 DEF IInv, TypeOK
<1>3. Link' <=> Link
  BY <1>1 DEF Link, Alive
<1>4. ~bogus => /\ Walk' /\ ServerHandle' /\ ClientHandle' /\ Pending'
                /\ ServesOne' /\ LinkKnown' /\ Pool(lw')
  BY <1>1, <1>3, Known DEF Walk, ServerHandle, ClientHandle, Pending, ServesOne, LinkKnown
<1> QED BY <1>1, <1>2, <1>4 DEF IInv

\* Every step.
LEMMA Step ==
  ASSUME IInv, [Next]_vars
  PROVE  IInv'
<1>1. CASE tcp_input
  <2>1. CASE Syn
    BY <2>1, SynStep
  <2>2. ASSUME NEW p \in ToSet(lw.active),
               Connected(p) \/ Accepted(p) \/ Data(p) \/ Fin(p) \/ FinAcked(p) \/ Rst(p)
        PROVE  IInv'
    BY <2>2, ConnectedStep, AcceptedStep, RemovedStep, FinStep, FinAckedStep
  <2> QED BY <1>1, <2>1, <2>2 DEF tcp_input
<1>2. CASE SlowTimer
  BY <1>2, SlowTimerStep
<1>3. CASE SlowPcb
  BY <1>3, SlowPcbStep
<1>4. CASE TimeWaitOver
  BY <1>4, TimeWaitOverStep
<1>5. CASE tcpclient_period
  BY <1>5, PeriodStep
<1>6. CASE UNCHANGED vars
  BY <1>6, Unchanged
<1> QED BY <1>1, <1>2, <1>3, <1>4, <1>5, <1>6 DEF Next

\* The induction.
LEMMA Invariance == Spec => []IInv
<1>1. Init => IInv
  BY InitIInv
<1>2. IInv /\ [Next]_vars => IInv'
  BY Step
<1> QED BY <1>1, <1>2, PTL DEF Spec

\* As long as tcp_close was not called for a freed pcb, every pcb is in one list
\* of lwIP and in a state that belongs there, whatever the segments, timeouts
\* and callbacks do to it.
THEOREM PoolIsIntact == Spec => []PoolIntact
<1>1. IInv => PoolIntact
  <2>1. SUFFICES ASSUME IInv, ~bogus PROVE PoolIntact
    BY DEF IInv, PoolIntact
  <2>2. ASSUME NEW p \in Pcbs PROVE InOnePlace(p)
    <3>1. /\ Lists[1] = ToSet(lw.free) /\ Lists[2] = ToSet(lw.active)
          /\ Lists[3] = lw.tw /\ Lists[4] = lw.bound
      BY DEF Lists
    <3>2. Placed(lw, p)
      BY <2>1, Known DEF Pool, Linked
    <3>3. CASE p \in Lists[1]
      BY <3>1, <3>2, <3>3 DEF Placed, InOnePlace
    <3>4. CASE p \in Lists[2]
      BY <3>1, <3>2, <3>4 DEF Placed, InOnePlace
    <3>5. CASE p \in Lists[3]
      BY <3>1, <3>2, <3>5 DEF Placed, InOnePlace
    <3>6. CASE p \in Lists[4]
      BY <3>1, <3>2, <3>6 DEF Placed, InOnePlace
    <3> QED BY <3>1, <3>2, <3>3, <3>4, <3>5, <3>6 DEF Placed
  <2> QED BY <2>1, <2>2, Known, LwParts DEF IInv, PoolIntact, Pool, Linked, Stated
<1> QED BY <1>1, Invariance, PTL

\* tcpserver_accept: while no close has run out of memory and none was made for
\* a freed pcb, the server has one connection that carries data, its handle's.
THEOREM ServerServesOne == Spec => []ServesOne
<1>1. IInv => ServesOne
  BY DEF IInv, ServesOne
<1> QED BY <1>1, Invariance, PTL

\* tcpclient_send_data, which looks at the state in the handle's pcb alone: while
\* no reconnection is asked for and no poll took a request back, the pcb is a
\* connection of the client that stands or is being made.
THEOREM ConnectionIsKnown == Spec => []LinkKnown
<1>1. IInv => LinkKnown
  BY DEF IInv, LinkKnown
<1> QED BY <1>1, Invariance, PTL

\* tcpclient_period: it gives up no connection that stands or is being made,
\* unless the end of an older one was taken for its own.
THEOREM ConnectionIsKept == Spec => LiveLinkKept
<1>1. IInv /\ [Next]_vars => [s_tcpclient_pcb' # s_tcpclient_pcb /\ Link => misled]_vars
  <2>1. SUFFICES ASSUME IInv, Next, s_tcpclient_pcb' # s_tcpclient_pcb, Link
                 PROVE  misled
    OBVIOUS
  <2>2. tcpclient_period
    BY <2>1 DEF Next, tcp_input, Syn, Connected, Accepted, Data, Fin, FinAcked, Rst,
                SlowTimer, SlowPcb, TimeWaitOver, handles
  <2>3. ~bogus /\ todo = <<>> /\ s_iNeedReconnectTcp /\ age # 0
    BY <2>2, TcpLinkAssumption DEF tcpclient_period, Input
  <2>4. s_tcpclient_pcb \notin ToSet(todo)
    BY <2>3 DEF ToSet
  <2> QED BY <2>1, <2>3, <2>4, Known DEF Pending
<1> QED BY <1>1, Invariance, PTL DEF Spec, LiveLinkKept
=============================================================================
