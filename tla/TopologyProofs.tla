---------------------------- MODULE TopologyProofs ----------------------------
(***************************************************************************)
(* Proofs about the grouping of a topology into shards: TopologyKept, for  *)
(* topologies of any length.  Grouped folds AddPeer over the peers; that a *)
(* fold has the values it seems to have, and what holds of each of them,   *)
(* is shown by induction, which rests on the least number of a set (WFMin).*)
(***************************************************************************)
EXTENDS DatabaseProofs, WellFoundedInduction

-----------------------------------------------------------------------------
(* Induction.                                                              *)

LEMMA LeastNumber ==
  \A T \in SUBSET Nat : T # {} => \E x \in T : \A y \in T : ~(y < x)
<1>1. IsWellFoundedOn({ss \in Nat \X Nat : ss[1] < ss[2]}, Nat)
  BY NatLessThanWellFounded DEF OpToRel
<1> SUFFICES ASSUME NEW T \in SUBSET Nat, T # {}
             PROVE  \E x \in T : \A y \in T : ~(y < x)
  OBVIOUS
<1>2. \E x \in T : \A y \in T : ~(<<y, x>> \in {ss \in Nat \X Nat : ss[1] < ss[2]})
  BY <1>1, WFMin
<1> QED BY <1>2

\* A set that holds 0, and with a number the next, holds them all.
LEMMA Induction ==
  ASSUME NEW S, 0 \in S, \A n \in Nat : n \in S => n + 1 \in S
  PROVE  \A n \in Nat : n \in S
<1> DEFINE T == {n \in Nat : n \notin S}
<1> SUFFICES ASSUME T # {} PROVE FALSE
  OBVIOUS
<1>1. PICK x \in T : \A y \in T : ~(y < x)
  BY LeastNumber
<1>2. x \in Nat /\ x # 0 /\ x \notin S
  OBVIOUS
<1>3. x - 1 \in Nat /\ x - 1 < x /\ (x - 1) + 1 = x
  BY <1>2
<1>4. x - 1 \in S
  BY <1>1, <1>3
<1> QED BY <1>2, <1>3, <1>4

-----------------------------------------------------------------------------
(* The fold.                                                               *)

\* g has the values of the fold on the sets of numbers up to n.
IsFold(g, n, peers) ==
  g = [s \in SUBSET (1..n) |->
         IF s = {} THEN << >> ELSE AddPeer(g[s \ {Max(s)}], peers[Max(s)])]

LEMMA MaxOf ==
  ASSUME NEW S \in SUBSET Nat, NEW n \in S, \A y \in S : n >= y
  PROVE  Max(S) = n
<1>1. Max(S) \in S /\ \A y \in S : Max(S) >= y
  BY Zenon DEF Max
<1>2. PICK m : m = Max(S)
  OBVIOUS
<1>3. m \in Nat /\ n \in Nat /\ m >= n /\ n >= m
  BY <1>1, <1>2
<1>4. m = n
  BY <1>3
<1> QED BY <1>2, <1>4

LEMMA FoldGrows ==
  ASSUME NEW n \in Nat, NEW peers, NEW g, IsFold(g, n, peers)
  PROVE  \E h : IsFold(h, n + 1, peers)
<1> DEFINE h == [s \in SUBSET (1..(n + 1)) |->
                   IF s \subseteq 1..n THEN g[s]
                   ELSE AddPeer(g[s \ {n + 1}], peers[n + 1])]
           body == [s \in SUBSET (1..(n + 1)) |->
                      IF s = {} THEN << >> ELSE AddPeer(h[s \ {Max(s)}], peers[Max(s)])]
<1>1. ASSUME NEW s \in SUBSET (1..(n + 1)) PROVE h[s] = body[s]
  <2>1. CASE s \subseteq 1..n
    <3>1. g[s] = IF s = {} THEN << >> ELSE AddPeer(g[s \ {Max(s)}], peers[Max(s)])
      BY <2>1 DEF IsFold
    <3>2. s \ {Max(s)} \subseteq 1..n
      BY <2>1
    <3>3. h[s] = g[s] /\ h[s \ {Max(s)}] = g[s \ {Max(s)}]
      BY <2>1, <3>2
    <3> QED BY <3>1, <3>3
  <2>2. CASE ~(s \subseteq 1..n)
    <3>1. n + 1 \in s /\ s \subseteq Nat /\ \A y \in s : n + 1 >= y
      BY <2>2
    <3>2. Max(s) = n + 1
      BY <3>1, MaxOf
    <3>3. s \ {n + 1} \subseteq 1..n
      OBVIOUS
    <3>4. h[s] = AddPeer(g[s \ {n + 1}], peers[n + 1]) /\ h[s \ {n + 1}] = g[s \ {n + 1}]
      BY <2>2, <3>3
    <3>5. body[s] = AddPeer(h[s \ {n + 1}], peers[n + 1])
      BY <3>1, <3>2
    <3> QED BY <3>4, <3>5
  <2> QED BY <2>1, <2>2
<1>2. h = body
  BY <1>1
<1> QED BY <1>2 DEF IsFold

LEMMA FoldExists == ASSUME NEW peers PROVE \A n \in Nat : \E g : IsFold(g, n, peers)
<1> DEFINE S == {n \in Nat : \E g : IsFold(g, n, peers)}
<1>1. 0 \in S
  <2> DEFINE g == [s \in SUBSET (1..0) |-> << >>]
  <2>1. \A s \in SUBSET (1..0) : s = {}
    OBVIOUS
  <2>2. g = [s \in SUBSET (1..0) |->
               IF s = {} THEN << >> ELSE AddPeer(g[s \ {Max(s)}], peers[Max(s)])]
    BY <2>1
  <2> QED BY <2>2 DEF IsFold
<1>2. \A n \in Nat : n \in S => n + 1 \in S
  BY FoldGrows
<1>3. \A n \in Nat : n \in S
  <2> HIDE DEF S
  <2> QED BY <1>1, <1>2, Induction
<1> QED BY <1>3

\* Grouped adds the peers one by one, from the first to the last.
LEMMA GroupedStepwise ==
  ASSUME NEW S, NEW peers \in Seq(S)
  PROVE  \E f : /\ f[0] = << >>
                /\ \A n \in Nat : n < Len(peers) => f[n + 1] = AddPeer(f[n], peers[n + 1])
                /\ Grouped(peers) = f[Len(peers)]
<1>1. Len(peers) \in Nat /\ DOMAIN peers = 1..Len(peers)
  OBVIOUS
<1> DEFINE g == CHOOSE iter : IsFold(iter, Len(peers), peers)
           f == [n \in 0..Len(peers) |-> g[1..n]]
<1>2. IsFold(g, Len(peers), peers)
  BY <1>1, FoldExists
<1>3. Grouped(peers) = g[1..Len(peers)]
  BY <1>1 DEF Grouped, FoldLeft, MapThenFoldSet, IsFold
<1>4. f[0] = << >>
  <2>1. 1..0 = {} /\ {} \in SUBSET (1..Len(peers))
    OBVIOUS
  <2>2. g[{}] = << >>
    BY <1>2, <2>1 DEF IsFold
  <2> QED BY <1>1, <2>1, <2>2
<1>5. ASSUME NEW n \in Nat, n < Len(peers) PROVE f[n + 1] = AddPeer(f[n], peers[n + 1])
  <2>1. 1..(n + 1) \in SUBSET (1..Len(peers)) /\ 1..(n + 1) # {}
    <3>1. n + 1 \in 1..(n + 1) /\ \A m \in 1..(n + 1) : m \in 1..Len(peers)
      BY <1>1, <1>5
    <3> QED BY <3>1
  <2>2. Max(1..(n + 1)) = n + 1
    BY MaxOf
  <2>3. (1..(n + 1)) \ {n + 1} = 1..n
    OBVIOUS
  <2>4. g[1..(n + 1)] = AddPeer(g[1..n], peers[n + 1])
    BY <1>2, <2>1, <2>2, <2>3 DEF IsFold
  <2> QED BY <1>1, <1>5, <2>4
<1> HIDE DEF f, g
<1>6. Grouped(peers) = f[Len(peers)]
  BY <1>1, <1>3 DEF f
<1> QED BY <1>4, <1>5, <1>6

-----------------------------------------------------------------------------
(* What the grouping of the first n peers looks like.                      *)

Shard == [name : Text, hosts : Seq(Text)]

Times(h, hosts) == Cardinality({i \in DOMAIN hosts : hosts[i] = h})
PeersOf(peers, h, s, n) == {i \in 1..n : peers[i].host = h /\ peers[i].shard = s}
ShardsOf(peers, n) == {peers[i].shard : i \in 1..n}

GroupsWell(v, peers, n) ==
  /\ v \in Seq(Shard)
  /\ {v[i].name : i \in DOMAIN v} = ShardsOf(peers, n)
  /\ IsFiniteSet(ShardsOf(peers, n)) /\ Cardinality(ShardsOf(peers, n)) = Len(v)
  /\ \A i \in DOMAIN v, h \in Text :
       Times(h, v[i].hosts) = Cardinality(PeersOf(peers, h, v[i].name, n))

PeersChecked(peers) ==
  \A i \in 1..Len(peers) : peers[i].host \in Text /\ peers[i].shard \in Text

\* A host is counted once more in a list it is appended to.
LEMMA TimesAppend ==
  ASSUME NEW hosts \in Seq(Text), NEW host \in Text, NEW h \in Text
  PROVE  /\ IsFiniteSet({i \in DOMAIN hosts : hosts[i] = h})
         /\ Times(h, hosts) \in Nat
         /\ Times(h, Append(hosts, host)) = Times(h, hosts) + (IF h = host THEN 1 ELSE 0)
<1> DEFINE S == {i \in DOMAIN hosts : hosts[i] = h}
           new == Append(hosts, host)
<1>1. Len(hosts) \in Nat /\ DOMAIN hosts = 1..Len(hosts)
  OBVIOUS
<1>2. IsFiniteSet(1..Len(hosts))
  BY <1>1, FS_Interval
<1>3. IsFiniteSet(S) /\ Len(hosts) + 1 \notin S
  BY <1>1, <1>2, FS_Subset
<1>4. /\ DOMAIN new = 1..(Len(hosts) + 1) /\ new[Len(hosts) + 1] = host
      /\ \A i \in 1..Len(hosts) : new[i] = hosts[i]
  OBVIOUS
<1>5. {i \in DOMAIN new : new[i] = h} = IF h = host THEN S \cup {Len(hosts) + 1} ELSE S
  BY <1>1, <1>4
<1>6. /\ Cardinality(S) \in Nat
      /\ Cardinality(S \cup {Len(hosts) + 1}) = Cardinality(S) + 1
  BY <1>3, FS_AddElement, FS_CardinalityType
<1>7. Times(h, hosts) = Cardinality(S)
  BY DEF Times
<1>8. Times(h, new) = IF h = host THEN Cardinality(S) + 1 ELSE Cardinality(S)
  <2> HIDE DEF new, S
  <2> QED BY <1>5, <1>6 DEF Times
<1> QED BY <1>3, <1>6, <1>7, <1>8

\* A peer more is counted with the host and the shard it names.
LEMMA PeersOfNext ==
  ASSUME NEW peers, NEW n \in Nat, NEW h, NEW s
  PROVE  /\ IsFiniteSet(PeersOf(peers, h, s, n))
         /\ Cardinality(PeersOf(peers, h, s, n)) \in Nat
         /\ Cardinality(PeersOf(peers, h, s, n + 1)) =
              Cardinality(PeersOf(peers, h, s, n))
                + (IF peers[n + 1].host = h /\ peers[n + 1].shard = s THEN 1 ELSE 0)
<1> DEFINE S == PeersOf(peers, h, s, n)
<1>1. IsFiniteSet(1..n)
  BY FS_Interval
<1>2. IsFiniteSet(S) /\ n + 1 \notin S
  BY <1>1, FS_Subset DEF PeersOf
<1>3. 1..(n + 1) = (1..n) \cup {n + 1}
  OBVIOUS
<1>4. PeersOf(peers, h, s, n + 1) =
        IF peers[n + 1].host = h /\ peers[n + 1].shard = s THEN S \cup {n + 1} ELSE S
  BY <1>3 DEF PeersOf
<1>5. Cardinality(S) \in Nat /\ Cardinality(S \cup {n + 1}) = Cardinality(S) + 1
  BY <1>2, FS_AddElement, FS_CardinalityType
<1> QED BY <1>2, <1>4, <1>5

LEMMA ShardsOfNext ==
  ASSUME NEW peers, NEW n \in Nat
  PROVE  ShardsOf(peers, n + 1) = ShardsOf(peers, n) \cup {peers[n + 1].shard}
<1>1. 1..(n + 1) = (1..n) \cup {n + 1}
  OBVIOUS
<1> QED BY <1>1 DEF ShardsOf

\* A peer of a shard that is there.
LEMMA JoinsShard ==
  ASSUME NEW peers, NEW n \in Nat, NEW v, GroupsWell(v, peers, n),
         peers[n + 1].host \in Text, peers[n + 1].shard \in Text,
         \E i \in DOMAIN v : v[i].name = peers[n + 1].shard
  PROVE  GroupsWell(AddPeer(v, peers[n + 1]), peers, n + 1)
<1> DEFINE part == peers[n + 1]
           joined(x) == [x EXCEPT !.hosts = Append(@, part.host)]
           w == [i \in DOMAIN v |-> IF v[i].name = part.shard THEN joined(v[i]) ELSE v[i]]
<1>1. AddPeer(v, part) = w
  BY DEF AddPeer
<1>2. v \in Seq(Shard) /\ Len(v) \in Nat /\ DOMAIN v = 1..Len(v)
  BY DEF GroupsWell
<1>3. \A i \in DOMAIN v : v[i] \in Shard
  BY <1>2
<1>4. ASSUME NEW x \in Shard
      PROVE  /\ joined(x) \in Shard /\ joined(x).name = x.name
             /\ joined(x).hosts = Append(x.hosts, part.host)
  BY DEF Shard
<1>5. \A i \in DOMAIN v :
        /\ w[i] \in Shard /\ w[i].name = v[i].name
        /\ w[i].hosts = IF v[i].name = part.shard THEN Append(v[i].hosts, part.host)
                        ELSE v[i].hosts
  BY <1>3, <1>4
<1>6. w \in Seq(Shard) /\ Len(w) = Len(v) /\ DOMAIN w = DOMAIN v
  <2> HIDE DEF joined
  <2>1. w \in [1..Len(v) -> Shard]
    BY <1>2, <1>5
  <2> QED BY <1>2, <2>1
<1>7. part.shard \in ShardsOf(peers, n)
  BY DEF GroupsWell
<1>8. ShardsOf(peers, n + 1) = ShardsOf(peers, n)
  <2>1. ShardsOf(peers, n + 1) = ShardsOf(peers, n) \cup {part.shard}
    BY ShardsOfNext
  <2>2. \A S, x : x \in S => S \cup {x} = S
    OBVIOUS
  <2> QED BY <1>7, <2>1, <2>2
<1>9. {w[i].name : i \in DOMAIN w} = {v[i].name : i \in DOMAIN v}
  BY <1>5, <1>6
<1>10. ASSUME NEW i \in DOMAIN w, NEW h \in Text
       PROVE  Times(h, w[i].hosts) = Cardinality(PeersOf(peers, h, w[i].name, n + 1))
  <2>1. v[i] \in Shard /\ v[i].hosts \in Seq(Text)
    BY <1>3, <1>6 DEF Shard
  <2>2. Times(h, v[i].hosts) = Cardinality(PeersOf(peers, h, v[i].name, n))
    BY <1>6 DEF GroupsWell
  <2>3. Cardinality(PeersOf(peers, h, v[i].name, n + 1)) =
          Cardinality(PeersOf(peers, h, v[i].name, n))
            + (IF part.host = h /\ part.shard = v[i].name THEN 1 ELSE 0)
    BY PeersOfNext
  <2>4. Times(h, Append(v[i].hosts, part.host)) =
          Times(h, v[i].hosts) + (IF h = part.host THEN 1 ELSE 0)
    BY <2>1, TimesAppend
  <2>5. Cardinality(PeersOf(peers, h, v[i].name, n)) \in Nat
    BY PeersOfNext
  <2>6. /\ w[i].name = v[i].name
        /\ w[i].hosts = IF v[i].name = part.shard THEN Append(v[i].hosts, part.host)
                        ELSE v[i].hosts
    BY <1>5, <1>6
  <2> HIDE DEF w, part
  <2> QED BY <2>2, <2>3, <2>4, <2>5, <2>6
<1> HIDE DEF w
<1> QED BY <1>1, <1>6, <1>8, <1>9, <1>10 DEF GroupsWell

\* A peer of a shard that is not.
LEMMA BeginsShard ==
  ASSUME NEW peers, NEW n \in Nat, NEW v, GroupsWell(v, peers, n),
         peers[n + 1].host \in Text, peers[n + 1].shard \in Text,
         ~ \E i \in DOMAIN v : v[i].name = peers[n + 1].shard
  PROVE  GroupsWell(AddPeer(v, peers[n + 1]), peers, n + 1)
<1> DEFINE part == peers[n + 1]
           new == [name |-> part.shard, hosts |-> <<part.host>>]
           w == Append(v, new)
<1>1. AddPeer(v, part) = w
  BY DEF AddPeer
<1>2. v \in Seq(Shard) /\ Len(v) \in Nat /\ DOMAIN v = 1..Len(v)
  BY DEF GroupsWell
<1>3. new \in Shard
  BY DEF Shard
<1>4. /\ w \in Seq(Shard) /\ Len(w) = Len(v) + 1 /\ DOMAIN w = DOMAIN v \cup {Len(v) + 1}
      /\ w[Len(v) + 1] = new /\ \A i \in DOMAIN v : w[i] = v[i]
  BY <1>2, <1>3
<1>5. ShardsOf(peers, n + 1) = ShardsOf(peers, n) \cup {part.shard}
  BY ShardsOfNext
<1>6. part.shard \notin ShardsOf(peers, n)
  BY DEF GroupsWell
<1>7. /\ IsFiniteSet(ShardsOf(peers, n + 1))
      /\ Cardinality(ShardsOf(peers, n + 1)) = Len(w)
  <2>1. IsFiniteSet(ShardsOf(peers, n)) /\ Cardinality(ShardsOf(peers, n)) = Len(v)
    BY DEF GroupsWell
  <2>2. /\ IsFiniteSet(ShardsOf(peers, n) \cup {part.shard})
        /\ Cardinality(ShardsOf(peers, n) \cup {part.shard}) = Cardinality(ShardsOf(peers, n)) + 1
    BY <1>6, <2>1, FS_AddElement
  <2> HIDE DEF w, part
  <2> QED BY <1>4, <1>5, <2>1, <2>2
<1>8. {w[i].name : i \in DOMAIN w} = ShardsOf(peers, n + 1)
  <2>1. {w[i].name : i \in DOMAIN w} = {v[i].name : i \in DOMAIN v} \cup {new.name}
    <3> HIDE DEF w, new
    <3> QED BY <1>4
  <2> QED BY <1>5, <2>1 DEF GroupsWell
<1>9. ASSUME NEW i \in DOMAIN w, NEW h \in Text
      PROVE  Times(h, w[i].hosts) = Cardinality(PeersOf(peers, h, w[i].name, n + 1))
  <2>1. CASE i \in DOMAIN v
    <3>1. Times(h, v[i].hosts) = Cardinality(PeersOf(peers, h, v[i].name, n))
      BY <2>1 DEF GroupsWell
    <3>2. w[i] = v[i] /\ v[i].name # part.shard
      BY <1>4, <2>1
    <3>3. Cardinality(PeersOf(peers, h, v[i].name, n + 1)) =
            Cardinality(PeersOf(peers, h, v[i].name, n))
              + (IF part.host = h /\ part.shard = v[i].name THEN 1 ELSE 0)
      BY PeersOfNext
    <3>4. Cardinality(PeersOf(peers, h, v[i].name, n)) \in Nat
      BY PeersOfNext
    <3> HIDE DEF w, part
    <3> QED BY <3>1, <3>2, <3>3, <3>4
  <2>2. CASE i = Len(v) + 1
    <3>1. w[i].name = part.shard /\ w[i].hosts = Append(<< >>, part.host)
      BY <1>4, <2>2
    <3>2. << >> \in Seq(Text) /\ Times(h, << >>) = 0
      <4>1. {j \in DOMAIN << >> : << >>[j] = h} = {}
        OBVIOUS
      <4> QED BY <4>1, FS_EmptySet DEF Times
    <3>3. Times(h, w[i].hosts) = IF h = part.host THEN 1 ELSE 0
      <4>1. Times(h, Append(<< >>, part.host)) =
              Times(h, << >>) + (IF h = part.host THEN 1 ELSE 0)
        BY <3>2, TimesAppend
      <4> HIDE DEF w, part
      <4> QED BY <3>1, <3>2, <4>1
    <3>4. PeersOf(peers, h, part.shard, n) = {}
      BY <1>6 DEF PeersOf, ShardsOf
    <3>5. Cardinality(PeersOf(peers, h, part.shard, n)) = 0
      BY <3>4, FS_EmptySet
    <3>6. Cardinality(PeersOf(peers, h, part.shard, n + 1)) = IF h = part.host THEN 1 ELSE 0
      BY <3>5, PeersOfNext
    <3> HIDE DEF w, part
    <3> QED BY <3>1, <3>3, <3>6
  <2> QED BY <1>4, <2>1, <2>2
<1> HIDE DEF w
<1> QED BY <1>1, <1>4, <1>7, <1>8, <1>9 DEF GroupsWell

\* No peers, no shards.
LEMMA GroupsNone == \A peers : GroupsWell(<< >>, peers, 0)
<1> SUFFICES ASSUME NEW peers PROVE GroupsWell(<< >>, peers, 0)
  OBVIOUS
<1>1. << >> \in Seq(Shard) /\ DOMAIN << >> = {} /\ Len(<< >>) = 0 /\ 1..0 = {}
  OBVIOUS
<1>2. ShardsOf(peers, 0) = {}
  BY <1>1 DEF ShardsOf
<1> QED BY <1>1, <1>2, FS_EmptySet DEF GroupsWell

\* The shards of a topology whose parts passed the checks, of any length.
LEMMA GroupedWell ==
  ASSUME NEW S, NEW peers \in Seq(S), PeersChecked(peers)
  PROVE  GroupsWell(Grouped(peers), peers, Len(peers))
<1>1. PICK f : /\ f[0] = << >>
               /\ \A n \in Nat : n < Len(peers) => f[n + 1] = AddPeer(f[n], peers[n + 1])
               /\ Grouped(peers) = f[Len(peers)]
  BY GroupedStepwise
<1> DEFINE W == {n \in Nat : n <= Len(peers) => GroupsWell(f[n], peers, n)}
<1>2. Len(peers) \in Nat
  OBVIOUS
<1>3. 0 \in W
  BY <1>1, GroupsNone
<1>4. ASSUME NEW n \in Nat, n \in W, n + 1 <= Len(peers)
      PROVE  GroupsWell(f[n + 1], peers, n + 1)
  <2>1. n < Len(peers) /\ n + 1 \in 1..Len(peers)
    BY <1>2, <1>4
  <2>2. GroupsWell(f[n], peers, n)
    BY <1>2, <1>4, <2>1
  <2>3. peers[n + 1].host \in Text /\ peers[n + 1].shard \in Text
    BY <2>1 DEF PeersChecked
  <2>4. GroupsWell(AddPeer(f[n], peers[n + 1]), peers, n + 1)
    BY <2>2, <2>3, JoinsShard, BeginsShard
  <2> QED BY <1>1, <2>1, <2>4
<1>5. \A n \in Nat : n \in W
  <2>1. \A n \in Nat : n \in W => n + 1 \in W
    BY <1>4
  <2> HIDE DEF W
  <2> QED BY <1>3, <2>1, Induction
<1> QED BY <1>1, <1>2, <1>5

-----------------------------------------------------------------------------
(* The file.                                                               *)

\* The topology of what is executed passed the checks.
LEMMA TopologyChosen ==
  ASSUME DbInv, GoalChosen, step # "idle", template = "ch_remote_servers_apply",
         engine \notin HostEngine
  PROVE  goal.topology_peers \in Seq(Part) /\ PeersChecked(goal.topology_peers)
<1>1. PICK p \in Params : Accepted(p, template) /\ goal = validate_for(p, template)
  BY DEF GoalChosen
<1>2. p \in TemplatedExecParams /\ template \in TemplatedExecId /\ template \in SplicesTopology
  BY FrameAssumption DEF TemplatedExecId, ChTemplate, SplicesTopology
<1>3. goal.topology_peers = p.topology_peers
  BY <1>1 DEF validate_for, requires_topology_peers
<1>4. p.topology_peers \in Seq(Part)
  BY <1>2 DEF TemplatedExecParams
<1> QED BY <1>1, <1>2, <1>3, <1>4, AcceptedTopology DEF PeersChecked

LEMMA FileKeepsTopology == ChInv /\ GoalChosen => TopologyKept
<1> SUFFICES ASSUME ChInv, GoalChosen, step = "reload", template = "ch_remote_servers_apply"
             PROVE  TopologyKept
  BY DEF TopologyKept
<1> DEFINE peers == goal.topology_peers
           n == Len(peers)
           v == Grouped(peers)
<1>1. DbInv /\ engine = "ch"
  BY DEF ChInv, DbInv, DbOwner, Owner, HostEngine, StepsOf, ImageStep, TemplatesOf, PgStandby,
     RedisReplicaTemplate, RedisClusterTemplate, MongoTemplate
<1>2. peers \in Seq(Part) /\ PeersChecked(peers)
  BY <1>1, TopologyChosen DEF HostEngine
<1>3. GroupsWell(v, peers, n)
  BY <1>2, GroupedWell
<1>4. chFile.shards = [i \in DOMAIN v |-> v[i].hosts]
  BY <1>1 DEF ChInv, ChStage, build_remote_servers_xml
<1>5. DOMAIN peers = 1..n
  BY <1>2
<1>6. v \in Seq(Shard) /\ DOMAIN v = 1..Len(v) /\ Len(v) \in Nat
  BY <1>3 DEF GroupsWell
<1>7. Len(chFile.shards) = Len(v) /\ DOMAIN chFile.shards = DOMAIN v
  <2>1. \A i \in DOMAIN v : v[i] \in Shard
    BY <1>6
  <2>2. chFile.shards \in [1..Len(v) -> Seq(Text)]
    BY <1>4, <1>6, <2>1 DEF Shard
  <2> QED BY <1>6, <2>2
<1>8. {peers[i].shard : i \in DOMAIN peers} = ShardsOf(peers, n)
  BY <1>5 DEF ShardsOf
<1>9. ASSUME NEW s \in ShardsOf(peers, n)
      PROVE  \E k \in DOMAIN chFile.shards :
               \A h \in Text :
                 Times(h, chFile.shards[k]) = Cardinality(PeersOf(peers, h, s, n))
  <2>1. PICK k \in DOMAIN v : v[k].name = s
    BY <1>3 DEF GroupsWell
  <2>2. chFile.shards[k] = v[k].hosts
    BY <1>4
  <2>3. \A h \in Text : Times(h, v[k].hosts) = Cardinality(PeersOf(peers, h, s, n))
    BY <1>3, <2>1 DEF GroupsWell
  <2> QED BY <1>7, <2>2, <2>3
<1>10. Len(chFile.shards) = Cardinality(ShardsOf(peers, n))
  BY <1>3, <1>7 DEF GroupsWell
<1>11. \A s \in {peers[i].shard : i \in DOMAIN peers} :
         \E k \in DOMAIN chFile.shards :
           \A h \in Text :
             Cardinality({i \in DOMAIN chFile.shards[k] : chFile.shards[k][i] = h})
               = Cardinality({i \in DOMAIN peers : peers[i].host = h /\ peers[i].shard = s})
  <2> SUFFICES ASSUME NEW s \in {peers[i].shard : i \in DOMAIN peers}
               PROVE  \E k \in DOMAIN chFile.shards :
                        \A h \in Text :
                          Cardinality({i \in DOMAIN chFile.shards[k] : chFile.shards[k][i] = h})
                            = Cardinality({i \in DOMAIN peers : peers[i].host = h
                                                              /\ peers[i].shard = s})
    OBVIOUS
  <2>1. PICK k \in DOMAIN chFile.shards :
          \A h \in Text : Times(h, chFile.shards[k]) = Cardinality(PeersOf(peers, h, s, n))
    BY <1>8, <1>9, Zenon
  <2>2. \A h : PeersOf(peers, h, s, n)
                 = {i \in DOMAIN peers : peers[i].host = h /\ peers[i].shard = s}
    BY <1>5, Zenon DEF PeersOf
  <2>3. \A h : Times(h, chFile.shards[k])
                 = Cardinality({i \in DOMAIN chFile.shards[k] : chFile.shards[k][i] = h})
    BY Zenon DEF Times
  <2> HIDE DEF peers, n, v
  <2> QED BY <2>1, <2>2, <2>3, Zenon
<1>12. Len(chFile.shards) = Cardinality({peers[i].shard : i \in DOMAIN peers})
  BY <1>8, <1>10, Zenon
<1> QED BY <1>11, <1>12, Zenon DEF TopologyKept

\* Whatever the topology and however long it is, two peers stand in the same
\* shard of the file that is loaded exactly when the request names the same
\* shard for them, and each as often as it is named (build_remote_servers_xml).
THEOREM TopologiesAreKept == Spec => []TopologyKept
<1>1. Init => ChInv /\ GoalChosen
  BY InitCh DEF Init, FrameInit, GoalChosen
<1>2. ChInv /\ GoalChosen /\ [Next]_vars => (ChInv /\ GoalChosen)'
  BY NextCh, NextChosen DEF ChInv
<1> QED BY <1>1, <1>2, FileKeepsTopology, PTL DEF Spec
=============================================================================
