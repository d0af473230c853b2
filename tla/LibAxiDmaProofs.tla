---------------------------- MODULE LibAxiDmaProofs ----------------------------
(***************************************************************************)
(* Theorems about LibAxiDma: the DMA driver under its library, for every   *)
(* set of processes, channels, device trees, addresses and buffers.        *)
(***************************************************************************)
EXTENDS LibAxiDma, SequenceTheorems, FiniteSetTheorems, FunctionTheorems,
        WellFoundedInduction, TLAPS

CallStep == [op : {"prep", "submit", "issue", "wait", "terminate"}, chan : ChannelId,
             mem : Memory \cup Exported, wait : BOOLEAN]
Descriptor == [owner : Process, mem : Memory \cup Exported, cookie : Nat, wait : BOOLEAN,
               state : {"submitted", "issued", "done"}]
Channel == [id : ChannelId, kind : Kinds]
CallbackRecord == [comp : Process \cup {None}, process : Process \cup {None}]

ProbeSteps == {"struct", "channels", "cb_data", "parsed", "requested", "name", "region", "class",
               "node", "cdev"}

DriverTypes ==
  /\ driver \in {"absent", "probing", "live"}
  /\ held \in Seq(ProbeSteps) /\ leaked \subseteq {"channels", "cb_data", "requested"}
  /\ tree \in Tree
  /\ channels \in Seq(Channel)
MemoryTypes ==
  /\ dmabufs \in Seq([owner : Process, addr : Address, mem : Memory])
  /\ externals \in Seq([owner : Process, addr : Address, mem : Exported])
EngineTypes ==
  /\ cb_data \in [ChannelId -> CallbackRecord]
  /\ engine \in [ChannelId -> [queue : Seq(Descriptor), used : Nat, last : Nat,
                               inflight : BOOLEAN]]
CallTypes ==
  /\ todo \in [Process -> Seq(CallStep)]
  /\ cookie \in [Process -> Nat]
  /\ completed \subseteq Process
  /\ lib \in [Process -> [stage : {"closed", "ready", "aborted"}, ids : [Kinds -> Seq(ChannelId)]]]
Types == DriverTypes /\ MemoryTypes /\ EngineTypes /\ CallTypes

\* Elements of a sequence
LEMMA ElementIn ==
  ASSUME NEW S, NEW s \in Seq(S)
  PROVE  /\ Len(s) \in Nat /\ DOMAIN s = 1 .. Len(s)
         /\ \A i \in DOMAIN s : s[i] \in S
  OBVIOUS

\* A function on the first numbers is a sequence.
LEMMA BuiltIsSeq ==
  ASSUME NEW S, NEW n \in Nat, NEW r, r = [i \in 1 .. n |-> r[i]], \A i \in 1 .. n : r[i] \in S
  PROVE  r \in Seq(S) /\ Len(r) = n /\ DOMAIN r = 1 .. n
  <1>1. r \in Seq(S)
    BY IsASeq
  <1>2. QED
    BY <1>1

\* The fields of the steps of a call and of the descriptors of a channel
LEMMA Fields ==
  ASSUME EngineTypes, CallTypes
  PROVE  /\ \A p \in Process : todo[p] \in Seq(CallStep) /\ cookie[p] \in Nat
         /\ \A p \in Process : \A i \in DOMAIN todo[p] :
              /\ todo[p][i].op \in {"prep", "submit", "issue", "wait", "terminate"}
              /\ todo[p][i].chan \in ChannelId /\ todo[p][i].wait \in BOOLEAN
              /\ todo[p][i].mem \in Memory \cup Exported
         /\ \A c \in ChannelId :
              /\ engine[c].queue \in Seq(Descriptor)
              /\ engine[c].used \in Nat /\ engine[c].last \in Nat
              /\ engine[c].inflight \in BOOLEAN
         /\ \A c \in ChannelId : \A i \in DOMAIN engine[c].queue :
              LET d == engine[c].queue[i] IN
                /\ d.owner \in Process /\ d.mem \in Memory \cup Exported
                /\ d.cookie \in Nat /\ d.wait \in BOOLEAN
                /\ d.state \in {"submitted", "issued", "done"}
  <1>1. \A p \in Process : todo[p] \in Seq(CallStep) /\ cookie[p] \in Nat
    BY DEF CallTypes
  <1>2. \A t \in CallStep :
          /\ t.op \in {"prep", "submit", "issue", "wait", "terminate"}
          /\ t.chan \in ChannelId /\ t.wait \in BOOLEAN /\ t.mem \in Memory \cup Exported
    BY DEF CallStep
  <1>3. \A c \in ChannelId :
          /\ engine[c].queue \in Seq(Descriptor)
          /\ engine[c].used \in Nat /\ engine[c].last \in Nat
          /\ engine[c].inflight \in BOOLEAN
    BY DEF EngineTypes
  <1>4. \A d \in Descriptor :
          /\ d.owner \in Process /\ d.mem \in Memory \cup Exported
          /\ d.cookie \in Nat /\ d.wait \in BOOLEAN
          /\ d.state \in {"submitted", "issued", "done"}
    BY DEF Descriptor
  <1>5. \A p \in Process : \A i \in DOMAIN todo[p] : todo[p][i] \in CallStep
    BY <1>1, ElementIn, Zenon
  <1>6. \A c \in ChannelId : \A i \in DOMAIN engine[c].queue : engine[c].queue[i] \in Descriptor
    BY <1>3, ElementIn, Zenon
  <1>7. QED
    BY <1>1, <1>2, <1>3, <1>4, <1>5, <1>6, Zenon

--------------------------------------------------------------------------------
(* the steps of the calls                                                      *)

\* What is left of a call: a failed one has one step left, a transfer is prepared and
\* then submitted, only a prepared one is, and when the call waits, then at its end, on
\* the channel of the transfer that was submitted last.
StepShape(s, i) ==
  /\ s[i].op = "wait" => i = Len(s)
  /\ s[i].op = "terminate" => Len(s) = 1
  /\ s[i].op \in {"prep", "submit"} => i < Len(s)
  /\ s[i].op = "prep" =>
       s[i + 1].op = "submit" /\ s[i + 1].chan = s[i].chan /\ s[i + 1].wait = s[i].wait
  /\ s[i].op = "submit" /\ s[i].wait =>
       /\ Last(s).op = "wait" /\ Last(s).chan = s[i].chan
       /\ \A j \in DOMAIN s : j > i => s[j].op \notin {"prep", "submit"}
  /\ s[i].op = "submit" /\ ~s[i].wait /\ Last(s).op = "wait" =>
       \E j \in DOMAIN s : j > i /\ s[j].op = "submit"
  /\ s[i].op = "issue" /\ Last(s).op = "wait" /\ s[i].chan = Last(s).chan =>
       s[i + 1].chan = Last(s).chan
  /\ s[i].op # "prep" /\ i < Len(s) => s[i + 1].op # "submit"
CallShape(s) == Len(s) <= 7 /\ \A i \in DOMAIN s : StepShape(s, i)

\* A step on a channel whose callback data this call has already set
Prepared(s, c) ==
  \E i \in DOMAIN s :
    /\ s[i].chan = c /\ s[i].op \in {"submit", "issue"}
    /\ \A j \in DOMAIN s : j < i /\ s[j].chan = c => s[j].op # "prep"

\* A call as it begins: every transfer is prepared first, on memory that was found
Program(s) ==
  /\ s \in Seq(CallStep) /\ CallShape(s)
  /\ \A c \in ChannelId : ~Prepared(s, c)
  /\ s # <<>> => Head(s).op = "prep"
  /\ \A i \in DOMAIN s : \E a \in Address : uservirt_to_dma(a) = s[i].mem /\ s[i].mem # None

--------------------------------------------------------------------------------
(* looking up an address                                                       *)

\* A set of naturals that is not empty has a least element.
LEMMA LeastNatural ==
  ASSUME NEW T \in SUBSET Nat, T # {}
  PROVE  \E n \in T : \A m \in T : n <= m
  <1> DEFINE F == {0 .. k : k \in T}
  <1>1. F \subseteq FiniteSubsetsOf(Nat)
    <2>1. \A k \in Nat : 0 .. k \in SUBSET Nat /\ IsFiniteSet(0 .. k)
      BY FS_Interval
    <2>2. QED
      BY <2>1, Zenon DEF FiniteSubsetsOf
  <1>2. F # {}
    OBVIOUS
  <1>3. PICK x \in F : \A y \in F : ~(<<y, x>> \in StrictSubsetOrdering(Nat))
    BY <1>1, <1>2, FS_StrictSubsetOrderingWellFounded, WFMin
  <1>4. PICK n \in T : x = 0 .. n
    BY <1>3
  <1>5. ASSUME NEW m \in T, ~(n <= m)
        PROVE FALSE
    <2>1. 0 .. m \subseteq Nat /\ 0 .. m \subseteq 0 .. n /\ 0 .. m # 0 .. n /\ 0 .. n \subseteq Nat
      BY <1>5
    <2>2. <<0 .. m, 0 .. n>> \in StrictSubsetOrdering(Nat)
      BY <2>1, Zenon DEF StrictSubsetOrdering
    <2>3. 0 .. m \in F
      OBVIOUS
    <2>4. QED
      BY <1>3, <1>4, <2>2, <2>3, Zenon
  <1>6. QED
    BY <1>5

\* What holds of 0 and of the successor of every number it holds of, holds of all.
LEMMA SetInduction ==
  ASSUME NEW T, 0 \in T, \A n \in Nat : n \in T => n + 1 \in T
  PROVE  Nat \subseteq T
  <1> SUFFICES ASSUME ~(Nat \subseteq T) PROVE FALSE
    OBVIOUS
  <1>1. PICK n \in Nat \ T : \A m \in Nat \ T : n <= m
    BY LeastNatural
  <1>2. n - 1 \in Nat /\ n - 1 \in T
    BY <1>1
  <1>3. QED
    BY <1>1, <1>2

\* Min is that element.
LEMMA MinIs ==
  ASSUME NEW T \in SUBSET Nat, T # {}
  PROVE  Min(T) \in T /\ \A m \in T : Min(T) <= m
  BY LeastNatural DEF Min

\* axidma_uservirt_to_dma finds memory of one of the two lists, or nothing.
LEMMA LookUp ==
  ASSUME MemoryTypes, NEW a, uservirt_to_dma(a) # None
  PROVE  \/ \E i \in DOMAIN dmabufs : uservirt_to_dma(a) = dmabufs[i].mem
         \/ \E i \in DOMAIN externals : uservirt_to_dma(a) = externals[i].mem
  <1> DEFINE E == [owner : Process, addr : Address, mem : Memory \cup Exported]
             entries == dmabufs \o externals
             hits == {i \in DOMAIN entries : entries[i].addr = a}
  <1>1. dmabufs \in Seq(E) /\ externals \in Seq(E)
    <2>1. /\ [owner : Process, addr : Address, mem : Memory] \subseteq E
          /\ [owner : Process, addr : Address, mem : Exported] \subseteq E
      OBVIOUS
    <2>2. QED
      BY <2>1, SeqMonotonic, Zenon DEF MemoryTypes
  <1>2. /\ entries \in Seq(E) /\ Len(entries) = Len(dmabufs) + Len(externals)
        /\ \A i \in 1 .. Len(entries) : entries[i] =
             IF i <= Len(dmabufs) THEN dmabufs[i] ELSE externals[i - Len(dmabufs)]
    BY <1>1, ConcatProperties
  <1>3. hits # {} /\ uservirt_to_dma(a) = entries[Min(hits)].mem
    BY DEF uservirt_to_dma
  <1>4. hits \in SUBSET Nat
    BY <1>2
  <1>5. Min(hits) \in hits
    BY <1>3, <1>4, MinIs
  <1>6. DOMAIN entries = 1 .. Len(entries)
    BY <1>2, LenProperties
  <1> HIDE DEF entries
  <1>a. Min(hits) \in 1 .. Len(entries)
    BY <1>5, <1>6
  <1> HIDE DEF hits
  <1>7. PICK k \in Nat : k = Min(hits) /\ k \in 1 .. Len(entries)
    BY <1>2, <1>a
  <1>8. uservirt_to_dma(a) = entries[k].mem
    BY <1>3, <1>7
  <1>9. CASE k <= Len(dmabufs)
    BY <1>1, <1>2, <1>7, <1>8, <1>9
  <1>10. CASE ~(k <= Len(dmabufs))
    <2>1. k - Len(dmabufs) \in DOMAIN externals /\ entries[k] = externals[k - Len(dmabufs)]
      BY <1>1, <1>2, <1>7, <1>10
    <2>2. QED
      BY <1>8, <2>1
  <1>11. QED
    BY <1>9, <1>10

\* What is found is memory of the driver or of another one.
LEMMA FoundIsMemory ==
  ASSUME MemoryTypes, NEW a, uservirt_to_dma(a) # None
  PROVE  uservirt_to_dma(a) \in Memory \cup Exported
  <1>1. \/ \E i \in DOMAIN dmabufs : uservirt_to_dma(a) = dmabufs[i].mem
        \/ \E i \in DOMAIN externals : uservirt_to_dma(a) = externals[i].mem
    BY LookUp
  <1>2. /\ \A i \in DOMAIN dmabufs : dmabufs[i].mem \in Memory
        /\ \A i \in DOMAIN externals : externals[i].mem \in Exported
    <2>1. /\ \A e \in [owner : Process, addr : Address, mem : Memory] : e.mem \in Memory
          /\ \A e \in [owner : Process, addr : Address, mem : Exported] : e.mem \in Exported
      OBVIOUS
    <2>2. QED
      BY <2>1, ElementIn, Zenon DEF MemoryTypes
  <1>3. QED
    BY <1>1, <1>2

--------------------------------------------------------------------------------
(* the arrays of the library                                                   *)

IdLists == [Kinds -> Seq(ChannelId)]
\* The arrays with channel m added at the end of its own
Put(h, m) == [h EXCEPT ![channels[m].kind] = Append(@, channels[m].id)]
\* g[m] are the arrays after m channels
Filled(g, n) ==
  /\ g \in [0 .. n -> IdLists] /\ g[0] = NoIds
  /\ \A m \in 1 .. n : g[m] = Put(g[m - 1], m)

\* One more channel keeps the arrays what they are.
LEMMA PutIs ==
  ASSUME channels \in Seq(Channel), NEW m \in 1 .. Len(channels), NEW h \in IdLists
  PROVE  /\ Put(h, m) \in IdLists
         /\ channels[m].kind \in Kinds /\ channels[m].id \in ChannelId
         /\ Put(h, m)[channels[m].kind] = Append(h[channels[m].kind], channels[m].id)
         /\ \A k \in Kinds : k # channels[m].kind => Put(h, m)[k] = h[k]
  <1>1. channels[m] \in Channel
    OBVIOUS
  <1>2. channels[m].kind \in Kinds /\ channels[m].id \in ChannelId
    BY <1>1 DEF Channel
  <1>3. h[channels[m].kind] \in Seq(ChannelId)
    BY <1>2 DEF IdLists
  <1>4. Append(h[channels[m].kind], channels[m].id) \in Seq(ChannelId)
    BY <1>2, <1>3
  <1>5. QED
    BY <1>2, <1>4 DEF Put, IdLists

\* The loop of categorize_channels fills the arrays.
LEMMA CanFill ==
  ASSUME channels \in Seq(Channel)
  PROVE  \E g : Filled(g, Len(channels))
  <1> DEFINE T == {n \in Nat : n <= Len(channels) => \E g : Filled(g, n)}
  <1>1. 0 \in T
    <2>1. NoIds \in IdLists
      BY DEF NoIds, IdLists
    <2>2. Filled([n \in 0 .. 0 |-> NoIds], 0)
      BY <2>1 DEF Filled
    <2>3. QED
      BY <2>2
  <1>2. ASSUME NEW n \in Nat, n \in T PROVE n + 1 \in T
    <2> SUFFICES ASSUME n + 1 <= Len(channels) PROVE \E g : Filled(g, n + 1)
      OBVIOUS
    <2>1. PICK g : Filled(g, n)
      BY <1>2
    <2>2. g[n] \in IdLists /\ n + 1 \in 1 .. Len(channels)
      BY <2>1 DEF Filled
    <2> DEFINE h == [m \in 0 .. n + 1 |-> IF m = n + 1 THEN Put(g[n], n + 1) ELSE g[m]]
    <2>3. Put(g[n], n + 1) \in IdLists
      BY <2>2, PutIs
    <2>4. h \in [0 .. n + 1 -> IdLists]
      BY <2>1, <2>3 DEF Filled
    <2>5. h[0] = NoIds
      BY <2>1 DEF Filled
    <2>6. \A m \in 1 .. n + 1 : h[m] = Put(h[m - 1], m)
      BY <2>1 DEF Filled
    <2>7. QED
      BY <2>4, <2>5, <2>6, Zenon DEF Filled
  <1> HIDE DEF T
  <1>3. Nat \subseteq T
    BY <1>1, <1>2, SetInduction
  <1>4. Len(channels) \in Nat
    OBVIOUS
  <1>5. QED
    BY <1>3, <1>4 DEF T

\* Categorized is the last of the arrays that the loop goes through.
LEMMA CategorizedIs ==
  ASSUME channels \in Seq(Channel)
  PROVE  \E g : Filled(g, Len(channels)) /\ Categorized = g[Len(channels)]
  <1> DEFINE L == Len(channels)
             Loop(g) == g = [n \in 0 .. L |-> IF n = 0 THEN NoIds
                               ELSE [g[n - 1] EXCEPT ![channels[n].kind] = Append(@, channels[n].id)]]
  <1>1. L \in Nat
    OBVIOUS
  <1>2. \E g : Loop(g)
    <2>1. PICK g : Filled(g, L)
      BY CanFill
    <2>2. g = [n \in 0 .. L |-> g[n]]
      BY <2>1, <1>1 DEF Filled
    <2>3. \A n \in 0 .. L : g[n] = IF n = 0 THEN NoIds ELSE Put(g[n - 1], n)
      BY <2>1, <1>1 DEF Filled
    <2>4. g = [n \in 0 .. L |-> IF n = 0 THEN NoIds ELSE Put(g[n - 1], n)]
      BY <2>2, <2>3
    <2>5. Loop(g)
      BY <2>4, Zenon DEF Put
    <2>6. QED
      BY <2>5
  <1>3. PICK g : g = (CHOOSE h : Loop(h)) /\ Loop(g)
    BY <1>2
  <1>4. Categorized = g[L]
    BY <1>3, Zenon DEF Categorized
  <1>5. ASSUME NEW n \in 0 .. L PROVE g[n] = IF n = 0 THEN NoIds ELSE Put(g[n - 1], n)
    BY <1>3, Zenon DEF Put
  <1>6. ASSUME NEW n \in Nat, n <= L PROVE g[n] \in IdLists
    <2> DEFINE T == {m \in Nat : m <= L => g[m] \in IdLists}
    <2>1. 0 \in T
      <3>1. NoIds \in IdLists
        BY DEF NoIds, IdLists
      <3>2. 0 \in 0 .. L
        BY <1>1
      <3>3. QED
        BY <1>5, <3>1, <3>2
    <2>2. ASSUME NEW m \in Nat, m \in T PROVE m + 1 \in T
      <3> SUFFICES ASSUME m + 1 <= L PROVE g[m + 1] \in IdLists
        OBVIOUS
      <3>1. g[m] \in IdLists /\ m + 1 \in 1 .. L /\ m + 1 \in 0 .. L /\ m + 1 # 0 /\ (m + 1) - 1 = m
        BY <1>1, <2>2
      <3>2. g[m + 1] = Put(g[m], m + 1)
        BY <1>5, <3>1
      <3>3. QED
        BY <3>1, <3>2, PutIs
    <2> HIDE DEF T
    <2>3. Nat \subseteq T
      BY <2>1, <2>2, SetInduction
    <2>4. QED
      BY <1>6, <2>3 DEF T
  <1>7. g = [n \in 0 .. L |-> g[n]]
    BY <1>3, Zenon
  <1>8. g \in [0 .. L -> IdLists] /\ g[0] = NoIds
    BY <1>1, <1>5, <1>6, <1>7
  <1>9. \A m \in 1 .. L : g[m] = Put(g[m - 1], m)
    BY <1>1, <1>5
  <1>10. QED
    BY <1>4, <1>8, <1>9, Zenon DEF Filled

\* The first n channels of a kind, and what an array has to hold of them
OfKind(n, k) == {i \in 1 .. n : channels[i].kind = k}
Holds(a, n, k) ==
  /\ IsFiniteSet(OfKind(n, k)) /\ Len(a) = Cardinality(OfKind(n, k))
  /\ \A c : c \in Range(a) <=> \E i \in OfKind(n, k) : channels[i].id = c

\* Appending the id of a channel
LEMMA AppendHolds ==
  ASSUME NEW S, NEW a \in Seq(S), NEW n \in Nat, NEW k, Holds(a, n, k),
         channels[n + 1].kind = k, channels[n + 1].id \in S
  PROVE  Holds(Append(a, channels[n + 1].id), n + 1, k)
  <1>1. OfKind(n + 1, k) = OfKind(n, k) \cup {n + 1} /\ n + 1 \notin OfKind(n, k)
    BY DEF OfKind
  <1>2. IsFiniteSet(OfKind(n, k)) /\ Len(a) = Cardinality(OfKind(n, k))
    BY Zenon DEF Holds
  <1>3. /\ IsFiniteSet(OfKind(n + 1, k))
        /\ Cardinality(OfKind(n + 1, k)) = Cardinality(OfKind(n, k)) + 1
    BY <1>1, <1>2, FS_AddElement
  <1>4. PICK id \in S : id = channels[n + 1].id
    OBVIOUS
  <1>5. Len(Append(a, id)) = Len(a) + 1
    OBVIOUS
  <1>6. ASSUME NEW c PROVE c \in Range(Append(a, id)) <=> c \in Range(a) \/ c = id
    <2>1. /\ DOMAIN a = 1 .. Len(a) /\ Len(a) \in Nat /\ DOMAIN Append(a, id) = 1 .. Len(a) + 1
          /\ Append(a, id)[Len(a) + 1] = id
          /\ \A i \in 1 .. Len(a) : Append(a, id)[i] = a[i]
      OBVIOUS
    <2>2. Len(a) + 1 \in 1 .. Len(a) + 1 /\ \A i \in 1 .. Len(a) + 1 : i \in 1 .. Len(a) \/ i = Len(a) + 1
      BY <2>1
    <2>3. 1 .. Len(a) \subseteq 1 .. Len(a) + 1
      BY <2>1
    <2>4. QED
      BY <2>1, <2>2, <2>3, Zenon DEF Range
  <1>7. \A c : c \in Range(a) <=> \E i \in OfKind(n, k) : channels[i].id = c
    BY Zenon DEF Holds
  <1>8. QED
    BY <1>1, <1>2, <1>3, <1>4, <1>5, <1>6, <1>7 DEF Holds

\* What categorize_channels promises: the array of a kind has one element for each
\* channel of that kind, and holds their ids.
LEMMA FilledCounts ==
  ASSUME channels \in Seq(Channel), NEW g, Filled(g, Len(channels)), NEW k \in Kinds
  PROVE  /\ g[Len(channels)] \in IdLists
         /\ Holds(g[Len(channels)][k], Len(channels), k)
  <1> DEFINE L == Len(channels)
             T == {n \in Nat : n <= L => Holds(g[n][k], n, k)}
  <1>1. L \in Nat /\ g \in [0 .. L -> IdLists] /\ g[0] = NoIds
        /\ \A m \in 1 .. L : g[m] = Put(g[m - 1], m)
    BY DEF Filled
  <1>2. Holds(g[0][k], 0, k)
    <2>1. OfKind(0, k) = {}
      BY DEF OfKind
    <2>2. g[0][k] = <<>> /\ Len(<<>>) = 0 /\ DOMAIN <<>> = {}
      BY <1>1 DEF NoIds
    <2>3. Range(g[0][k]) = {}
      BY <2>2 DEF Range
    <2>4. QED
      BY <2>1, <2>2, <2>3, FS_EmptySet DEF Holds
  <1>3. ASSUME NEW n \in Nat, n + 1 <= L, Holds(g[n][k], n, k)
        PROVE  Holds(g[n + 1][k], n + 1, k)
    <2>1. n + 1 \in 1 .. L /\ n \in 0 .. L /\ (n + 1) - 1 = n
      BY <1>1, <1>3
    <2>2. g[n] \in IdLists /\ g[n + 1] = Put(g[n], n + 1)
      BY <1>1, <2>1
    <2>a. PICK m \in 1 .. Len(channels) : m = n + 1
      BY <2>1
    <2>b. PICK h \in IdLists : h = g[n]
      BY <2>2
    <2>c. /\ channels[m].id \in ChannelId
          /\ Put(h, m)[channels[m].kind] = Append(h[channels[m].kind], channels[m].id)
          /\ k # channels[m].kind => Put(h, m)[k] = h[k]
      BY PutIs, Zenon
    <2>3. /\ channels[n + 1].id \in ChannelId
          /\ g[n + 1][channels[n + 1].kind]
               = Append(g[n][channels[n + 1].kind], channels[n + 1].id)
          /\ k # channels[n + 1].kind => g[n + 1][k] = g[n][k]
      BY <2>2, <2>a, <2>b, <2>c, Zenon
    <2>4. g[n][k] \in Seq(ChannelId)
      BY <2>2 DEF IdLists
    <2>5. CASE channels[n + 1].kind = k
      BY <1>3, <2>3, <2>4, <2>5, AppendHolds
    <2>6. CASE channels[n + 1].kind # k
      <3>1. OfKind(n + 1, k) = OfKind(n, k)
        BY <2>6 DEF OfKind
      <3>2. QED
        BY <1>3, <2>3, <2>6, <3>1 DEF Holds
    <2>7. QED
      BY <2>5, <2>6
  <1>4. 0 \in T /\ \A n \in Nat : n \in T => n + 1 \in T
    BY <1>1, <1>2, <1>3
  <1> HIDE DEF T
  <1>5. Nat \subseteq T
    BY <1>4, SetInduction
  <1>6. L \in T /\ L <= L
    BY <1>1, <1>5
  <1>7. Holds(g[L][k], L, k)
    BY <1>6, Zenon DEF T
  <1>8. g[L] \in IdLists
    BY <1>1
  <1>9. QED
    BY <1>7, <1>8

--------------------------------------------------------------------------------
(* the programs of the calls                                                   *)

\* axidma_prep_transfer: two steps of the same transfer
LEMMA PrepareIs ==
  ASSUME NEW c \in ChannelId, NEW m \in Memory \cup Exported, NEW w \in BOOLEAN
  PROVE  /\ Prepare(c, m, w) \in Seq(CallStep) /\ Len(Prepare(c, m, w)) = 2
         /\ Prepare(c, m, w)[1] = [op |-> "prep", chan |-> c, mem |-> m, wait |-> w]
         /\ Prepare(c, m, w)[2] = [op |-> "submit", chan |-> c, mem |-> m, wait |-> w]
  BY DEF Prepare, CallStep

\* axidma_start_transfer: a second step for those that are waited for
LEMMA StartIs ==
  ASSUME NEW c \in ChannelId, NEW m \in Memory \cup Exported, NEW w \in BOOLEAN
  PROVE  /\ StartTransfer(c, m, w) \in Seq(CallStep)
         /\ Len(StartTransfer(c, m, w)) = IF w THEN 2 ELSE 1
         /\ StartTransfer(c, m, w)[1] = [op |-> "issue", chan |-> c, mem |-> m, wait |-> w]
         /\ w => StartTransfer(c, m, w)[2] = [op |-> "wait", chan |-> c, mem |-> m, wait |-> TRUE]
  <1> DEFINE issue == [op |-> "issue", chan |-> c, mem |-> m, wait |-> w]
             wait == [op |-> "wait", chan |-> c, mem |-> m, wait |-> TRUE]
  <1>1. issue \in CallStep /\ wait \in CallStep
    BY DEF CallStep
  <1> HIDE DEF issue, wait
  <1>2. CASE w
    <2>1. StartTransfer(c, m, w) = <<issue>> \o <<wait>>
      BY <1>2 DEF StartTransfer, issue, wait
    <2>2. /\ StartTransfer(c, m, w) \in Seq(CallStep) /\ Len(StartTransfer(c, m, w)) = 2
          /\ StartTransfer(c, m, w)[1] = issue /\ StartTransfer(c, m, w)[2] = wait
      BY <1>1, <2>1
    <2>3. QED
      BY <1>2, <2>2, Zenon DEF issue, wait
  <1>3. CASE ~w
    <2>1. StartTransfer(c, m, w) = <<issue>> \o <<>>
      BY <1>3 DEF StartTransfer, issue
    <2>2. StartTransfer(c, m, w) = <<issue>>
      BY <1>1, <2>1
    <2>3. QED
      BY <1>1, <1>3, <2>2 DEF issue
  <1>4. QED
    BY <1>2, <1>3

\* The steps of a call of one transfer, and of one of two
OneWaySteps(s, c, m, w) ==
  /\ s \in Seq(CallStep) /\ Len(s) = IF w THEN 4 ELSE 3
  /\ s[1] = [op |-> "prep", chan |-> c, mem |-> m, wait |-> w]
  /\ s[2] = [op |-> "submit", chan |-> c, mem |-> m, wait |-> w]
  /\ s[3] = [op |-> "issue", chan |-> c, mem |-> m, wait |-> w]
  /\ w => s[4] = [op |-> "wait", chan |-> c, mem |-> m, wait |-> TRUE]
TwoWaySteps(s, c, m, d, n, w) ==
  /\ s \in Seq(CallStep) /\ Len(s) = IF w THEN 7 ELSE 6
  /\ s[1] = [op |-> "prep", chan |-> c, mem |-> m, wait |-> FALSE]
  /\ s[2] = [op |-> "submit", chan |-> c, mem |-> m, wait |-> FALSE]
  /\ s[3] = [op |-> "prep", chan |-> d, mem |-> n, wait |-> w]
  /\ s[4] = [op |-> "submit", chan |-> d, mem |-> n, wait |-> w]
  /\ s[5] = [op |-> "issue", chan |-> c, mem |-> m, wait |-> FALSE]
  /\ s[6] = [op |-> "issue", chan |-> d, mem |-> n, wait |-> w]
  /\ w => s[7] = [op |-> "wait", chan |-> d, mem |-> n, wait |-> TRUE]

\* A call of one transfer, step by step
LEMMA OneWayIs ==
  ASSUME NEW c \in ChannelId, NEW m \in Memory \cup Exported, NEW w \in BOOLEAN,
         NEW s, s = Prepare(c, m, w) \o StartTransfer(c, m, w)
  PROVE  OneWaySteps(s, c, m, w)
  <1> DEFINE a == Prepare(c, m, w)
             b == StartTransfer(c, m, w)
  <1> HIDE DEF a, b
  <1>1. a \in Seq(CallStep) /\ b \in Seq(CallStep) /\ s = a \o b
    BY PrepareIs, StartIs DEF a, b
  <1>2. /\ s \in Seq(CallStep) /\ Len(s) = Len(a) + Len(b)
        /\ \A i \in 1 .. Len(a) + Len(b) : s[i] = IF i <= Len(a) THEN a[i] ELSE b[i - Len(a)]
    BY <1>1, ConcatProperties
  <1>3. /\ Len(a) = 2
        /\ a[1] = [op |-> "prep", chan |-> c, mem |-> m, wait |-> w]
        /\ a[2] = [op |-> "submit", chan |-> c, mem |-> m, wait |-> w]
        /\ Len(b) = IF w THEN 2 ELSE 1
        /\ b[1] = [op |-> "issue", chan |-> c, mem |-> m, wait |-> w]
        /\ w => b[2] = [op |-> "wait", chan |-> c, mem |-> m, wait |-> TRUE]
    BY PrepareIs, StartIs, Zenon DEF a, b
  <1>4. /\ s[1] = a[1] /\ s[2] = a[2] /\ s[3] = b[1]
        /\ w => s[4] = b[2]
    BY <1>2, <1>3
  <1>5. Len(s) = IF w THEN 4 ELSE 3
    BY <1>2, <1>3
  <1>6. QED
    BY <1>2, <1>3, <1>4, <1>5, Zenon DEF OneWaySteps

\* Four pieces of a call one behind the other
LEMMA Joined ==
  ASSUME NEW S, NEW a \in Seq(S), NEW b \in Seq(S), NEW e \in Seq(S), NEW f \in Seq(S),
         Len(a) = 2, Len(b) = 2, Len(e) = 1, NEW l \in {1, 2}, Len(f) = l
  PROVE  /\ a \o b \o e \o f \in Seq(S) /\ Len(a \o b \o e \o f) = 5 + l
         /\ (a \o b \o e \o f)[1] = a[1] /\ (a \o b \o e \o f)[2] = a[2]
         /\ (a \o b \o e \o f)[3] = b[1] /\ (a \o b \o e \o f)[4] = b[2]
         /\ (a \o b \o e \o f)[5] = e[1] /\ (a \o b \o e \o f)[6] = f[1]
         /\ l = 2 => (a \o b \o e \o f)[7] = f[2]
  <1> DEFINE ab == a \o b
             abe == ab \o e
  <1>a. /\ ab \in Seq(S) /\ Len(ab) = Len(a) + Len(b)
        /\ \A i \in 1 .. Len(a) + Len(b) :
             ab[i] = IF i <= Len(a) THEN a[i] ELSE b[i - Len(a)]
    BY ConcatProperties, Zenon
  <1> HIDE DEF ab
  <1>1. /\ ab \in Seq(S) /\ Len(ab) = 4
        /\ \A i \in 1 .. 4 : ab[i] = IF i <= 2 THEN a[i] ELSE b[i - 2]
    BY <1>a
  <1>2. /\ abe \in Seq(S) /\ Len(abe) = Len(ab) + Len(e)
        /\ \A i \in 1 .. Len(ab) + Len(e) :
             abe[i] = IF i <= Len(ab) THEN ab[i] ELSE e[i - Len(ab)]
    BY <1>1, ConcatProperties
  <1> HIDE DEF abe
  <1>3. Len(abe) = 5 /\ \A i \in 1 .. 5 : abe[i] = IF i <= 4 THEN ab[i] ELSE e[i - 4]
    BY <1>1, <1>2
  <1> DEFINE s == abe \o f
  <1>4. /\ s \in Seq(S) /\ Len(s) = Len(abe) + Len(f)
        /\ \A i \in 1 .. Len(abe) + Len(f) :
             s[i] = IF i <= Len(abe) THEN abe[i] ELSE f[i - Len(abe)]
    BY <1>2, ConcatProperties
  <1> HIDE DEF s
  <1>5. /\ s[1] = a[1] /\ s[2] = a[2] /\ s[3] = b[1] /\ s[4] = b[2] /\ s[5] = e[1] /\ s[6] = f[1]
        /\ l = 2 => s[7] = f[2]
    BY <1>1, <1>3, <1>4
  <1>6. Len(s) = 5 + l
    BY <1>3, <1>4
  <1>7. QED
    BY <1>4, <1>5, <1>6, Zenon DEF s, abe, ab

\* A call of two transfers: the receive transfer is the one that is waited for
LEMMA TwoWayIs ==
  ASSUME NEW c \in ChannelId, NEW m \in Memory \cup Exported,
         NEW d \in ChannelId, NEW n \in Memory \cup Exported, NEW w \in BOOLEAN,
         NEW s, s = Prepare(c, m, FALSE) \o Prepare(d, n, w)
                      \o StartTransfer(c, m, FALSE) \o StartTransfer(d, n, w)
  PROVE  TwoWaySteps(s, c, m, d, n, w)
  <1> DEFINE a == Prepare(c, m, FALSE)
             b == Prepare(d, n, w)
             e == StartTransfer(c, m, FALSE)
             f == StartTransfer(d, n, w)
             l == IF w THEN 2 ELSE 1
  <1>1. FALSE \in BOOLEAN /\ l \in {1, 2} /\ (w => l = 2)
    OBVIOUS
  <1>2. /\ a \in Seq(CallStep) /\ b \in Seq(CallStep) /\ e \in Seq(CallStep) /\ f \in Seq(CallStep)
        /\ Len(a) = 2 /\ Len(b) = 2 /\ Len(f) = l
        /\ a[1] = [op |-> "prep", chan |-> c, mem |-> m, wait |-> FALSE]
        /\ a[2] = [op |-> "submit", chan |-> c, mem |-> m, wait |-> FALSE]
        /\ b[1] = [op |-> "prep", chan |-> d, mem |-> n, wait |-> w]
        /\ b[2] = [op |-> "submit", chan |-> d, mem |-> n, wait |-> w]
        /\ e[1] = [op |-> "issue", chan |-> c, mem |-> m, wait |-> FALSE]
        /\ f[1] = [op |-> "issue", chan |-> d, mem |-> n, wait |-> w]
        /\ w => f[2] = [op |-> "wait", chan |-> d, mem |-> n, wait |-> TRUE]
    BY <1>1, PrepareIs, StartIs, Zenon
  <1>3. Len(e) = IF FALSE THEN 2 ELSE 1
    BY <1>1, StartIs, Zenon
  <1>4. s = a \o b \o e \o f
    BY Zenon
  <1>5. 5 + l = IF w THEN 7 ELSE 6
    OBVIOUS
  <1> HIDE DEF a, b, e, f, l
  <1>6. Len(e) = 1
    BY <1>3
  <1>7. /\ s \in Seq(CallStep) /\ Len(s) = 5 + l
        /\ s[1] = a[1] /\ s[2] = a[2] /\ s[3] = b[1] /\ s[4] = b[2] /\ s[5] = e[1] /\ s[6] = f[1]
        /\ l = 2 => s[7] = f[2]
    <2>1. /\ a \in Seq(CallStep) /\ b \in Seq(CallStep) /\ e \in Seq(CallStep) /\ f \in Seq(CallStep)
          /\ Len(a) = 2 /\ Len(b) = 2 /\ Len(e) = 1 /\ l \in {1, 2} /\ Len(f) = l
      BY <1>1, <1>2, <1>6, Zenon
    <2>2. /\ a \o b \o e \o f \in Seq(CallStep) /\ Len(a \o b \o e \o f) = 5 + l
          /\ (a \o b \o e \o f)[1] = a[1] /\ (a \o b \o e \o f)[2] = a[2]
          /\ (a \o b \o e \o f)[3] = b[1] /\ (a \o b \o e \o f)[4] = b[2]
          /\ (a \o b \o e \o f)[5] = e[1] /\ (a \o b \o e \o f)[6] = f[1]
          /\ l = 2 => (a \o b \o e \o f)[7] = f[2]
      BY <2>1, Joined, SMTT(60)
    <2>3. QED
      BY <1>4, <2>2, ZenonT(30)
  <1>8. QED
    BY <1>1, <1>2, <1>5, <1>7, Zenon DEF TwoWaySteps

\* A call that finds nothing to do is over.
LEMMA EmptyProgram == Program(<<>>)
  <1>1. <<>> \in Seq(CallStep) /\ Len(<<>>) = 0 /\ DOMAIN <<>> = {}
    OBVIOUS
  <1>2. QED
    BY <1>1 DEF Program, CallShape, Prepared

\* The first and the last step
LEMMA Ends ==
  ASSUME NEW s \in Seq(CallStep), NEW n \in Nat, Len(s) = n, n > 0
  PROVE  DOMAIN s = 1 .. n /\ Head(s) = s[1] /\ Last(s) = s[n] /\ s # <<>>
  BY DEF Last

\* The shape of a call of one transfer
LEMMA OneWayShape ==
  ASSUME NEW c, NEW m, NEW w \in BOOLEAN, NEW s, OneWaySteps(s, c, m, w)
  PROVE  /\ CallShape(s)
         /\ \A e \in ChannelId : ~Prepared(s, e)
         /\ Head(s).op = "prep"
         /\ \A i \in DOMAIN s : s[i].mem = m
  <1>1. PICK n \in Nat : n = (IF w THEN 4 ELSE 3) /\ n > 0 /\ n <= 7 /\ n \in {3, 4} /\ (w <=> n = 4)
    OBVIOUS
  <1>2. s \in Seq(CallStep) /\ Len(s) = n
    BY <1>1, Zenon DEF OneWaySteps
  <1>3. DOMAIN s = 1 .. n /\ Head(s) = s[1] /\ Last(s) = s[n]
    BY <1>2, <1>1, Ends, Zenon
  <1>4. /\ s[1].op = "prep" /\ s[1].chan = c /\ s[1].mem = m /\ s[1].wait = w
        /\ s[2].op = "submit" /\ s[2].chan = c /\ s[2].mem = m /\ s[2].wait = w
        /\ s[3].op = "issue" /\ s[3].chan = c /\ s[3].mem = m /\ s[3].wait = w
        /\ w => s[4].op = "wait" /\ s[4].chan = c /\ s[4].mem = m /\ s[4].wait
    BY DEF OneWaySteps
  <1>5. \A i \in 1 .. n : i \in Nat /\ (i = 1 \/ i = 2 \/ i = 3 \/ (i = 4 /\ w))
    BY <1>1
  <1>6. \A i \in DOMAIN s : StepShape(s, i)
    BY <1>1, <1>2, <1>3, <1>4, <1>5 DEF StepShape
  <1>7. ASSUME NEW e \in ChannelId PROVE ~Prepared(s, e)
    BY <1>1, <1>3, <1>4, <1>5 DEF Prepared
  <1>8. \A i \in DOMAIN s : s[i].mem = m
    BY <1>3, <1>4, <1>5
  <1>9. QED
    BY <1>1, <1>2, <1>3, <1>4, <1>6, <1>7, <1>8 DEF CallShape

\* The shape of a call of two transfers
LEMMA TwoWayShape ==
  ASSUME NEW c, NEW m, NEW d, NEW k, NEW w \in BOOLEAN, NEW s, TwoWaySteps(s, c, m, d, k, w)
  PROVE  /\ CallShape(s)
         /\ \A e \in ChannelId : ~Prepared(s, e)
         /\ Head(s).op = "prep"
         /\ \A i \in DOMAIN s : s[i].mem = m \/ s[i].mem = k
  <1>1. PICK n \in Nat : n = (IF w THEN 7 ELSE 6) /\ n > 0 /\ n <= 7 /\ n \in {6, 7} /\ (w <=> n = 7)
    OBVIOUS
  <1>2. s \in Seq(CallStep) /\ Len(s) = n
    BY <1>1, Zenon DEF TwoWaySteps
  <1>3. DOMAIN s = 1 .. n /\ Head(s) = s[1] /\ Last(s) = s[n]
    BY <1>2, <1>1, Ends, Zenon
  <1>4. /\ s[1].op = "prep" /\ s[1].chan = c /\ s[1].mem = m /\ ~s[1].wait
        /\ s[2].op = "submit" /\ s[2].chan = c /\ s[2].mem = m /\ ~s[2].wait
        /\ s[3].op = "prep" /\ s[3].chan = d /\ s[3].mem = k /\ s[3].wait = w
        /\ s[4].op = "submit" /\ s[4].chan = d /\ s[4].mem = k /\ s[4].wait = w
        /\ s[5].op = "issue" /\ s[5].chan = c /\ s[5].mem = m /\ ~s[5].wait
        /\ s[6].op = "issue" /\ s[6].chan = d /\ s[6].mem = k /\ s[6].wait = w
        /\ w => s[7].op = "wait" /\ s[7].chan = d /\ s[7].mem = k /\ s[7].wait
        /\ s[1].wait = s[2].wait
    BY DEF TwoWaySteps
  <1>5. \A i \in 1 .. n : /\ i \in Nat
                          /\ i = 1 \/ i = 2 \/ i = 3 \/ i = 4 \/ i = 5 \/ i = 6 \/ (i = 7 /\ w)
    BY <1>1
  <1>6. ASSUME NEW i \in DOMAIN s PROVE StepShape(s, i)
    <2>1. CASE i \in {1, 2, 3}
      BY <1>1, <1>2, <1>3, <1>4, <1>5, <2>1 DEF StepShape
    <2>2. CASE i = 4
      BY <1>1, <1>2, <1>3, <1>4, <1>5, <2>2, SMTT(30) DEF StepShape
    <2>3. CASE i \in {5, 6, 7}
      BY <1>1, <1>2, <1>3, <1>4, <1>5, <2>3 DEF StepShape
    <2>4. QED
      BY <1>3, <1>5, <2>1, <2>2, <2>3
  <1>7. ASSUME NEW e \in ChannelId PROVE ~Prepared(s, e)
    BY <1>1, <1>3, <1>4, <1>5 DEF Prepared
  <1>8. \A i \in DOMAIN s : s[i].mem = m \/ s[i].mem = k
    BY <1>3, <1>4, <1>5
  <1>9. QED
    BY <1>1, <1>2, <1>3, <1>4, <1>6, <1>7, <1>8 DEF CallShape

\* axidma_read_transfer, axidma_write_transfer and axidma_video_transfer
LEMMA OneWayProgram ==
  ASSUME MemoryTypes, NEW c \in ChannelId, NEW a \in Address, NEW w \in BOOLEAN,
         uservirt_to_dma(a) # None
  PROVE  Program(Prepare(c, uservirt_to_dma(a), w) \o StartTransfer(c, uservirt_to_dma(a), w))
  <1> DEFINE m == uservirt_to_dma(a)
             s == Prepare(c, m, w) \o StartTransfer(c, m, w)
  <1>1. OneWaySteps(s, c, m, w)
    BY FoundIsMemory, OneWayIs, Zenon
  <1> HIDE DEF s
  <1>2. s \in Seq(CallStep)
    BY <1>1 DEF OneWaySteps
  <1>3. /\ CallShape(s)
        /\ \A d \in ChannelId : ~Prepared(s, d)
        /\ Head(s).op = "prep"
        /\ \A i \in DOMAIN s : s[i].mem = m
    BY <1>1, OneWayShape
  <1>4. QED
    BY <1>2, <1>3, Zenon DEF Program, s

\* axidma_rw_transfer
LEMMA TwoWayProgram ==
  ASSUME MemoryTypes, NEW c \in ChannelId, NEW a \in Address, NEW d \in ChannelId,
         NEW b \in Address, NEW w \in BOOLEAN,
         uservirt_to_dma(a) # None, uservirt_to_dma(b) # None
  PROVE  Program(Prepare(c, uservirt_to_dma(a), FALSE) \o Prepare(d, uservirt_to_dma(b), w)
                   \o StartTransfer(c, uservirt_to_dma(a), FALSE)
                   \o StartTransfer(d, uservirt_to_dma(b), w))
  <1> DEFINE m == uservirt_to_dma(a)
             k == uservirt_to_dma(b)
             s == Prepare(c, m, FALSE) \o Prepare(d, k, w)
                    \o StartTransfer(c, m, FALSE) \o StartTransfer(d, k, w)
  <1>1. TwoWaySteps(s, c, m, d, k, w)
    BY FoundIsMemory, TwoWayIs, Zenon
  <1> HIDE DEF s
  <1>2. s \in Seq(CallStep)
    BY <1>1 DEF TwoWaySteps
  <1>3. /\ CallShape(s)
        /\ \A e \in ChannelId : ~Prepared(s, e)
        /\ Head(s).op = "prep"
        /\ \A i \in DOMAIN s : s[i].mem = m \/ s[i].mem = k
    BY <1>1, TwoWayShape
  <1>4. QED
    BY <1>2, <1>3, Zenon DEF Program, s

--------------------------------------------------------------------------------
(* the steps of the system                                                     *)

\* A call into the driver begins with one of the programs.
Called(p) == \E s : Program(s) /\ Opened(p) /\ driver = "live" /\ Begin(p, s)

\* What process p may do
ProcessStep(p) ==
  \/ axidma_init_dev(p)
  \/ Leaves(p, "closed") \/ Leaves(p, "aborted")
  \/ \E a \in Address, m \in Memory : axidma_malloc(p, a, m)
  \/ \E a \in Address : axidma_free(p, a)
  \/ \E a \in Address, x \in Exported : axidma_register_buffer(p, a, x)
  \/ Called(p) /\ UNCHANGED lib
  \/ \E c \in ChannelId : axidma_stop_transfer(p, c)
  \/ Step(p) /\ UNCHANGED lib

\* A transfer in one direction begins with its program.
LEMMA OneWayCalled ==
  ASSUME MemoryTypes, NEW p \in Process, Opened(p), NEW c \in ChannelId, NEW a \in Address,
         NEW w \in BOOLEAN, OneWay(p, c, a, w)
  PROVE  Called(p)
  <1> DEFINE m == uservirt_to_dma(a)
  <1>1. CASE m = None
    BY <1>1, EmptyProgram, Zenon DEF Called, OneWay, Ready
  <1>2. CASE m # None
    <2>1. Program(Prepare(c, m, w) \o StartTransfer(c, m, w))
      BY <1>2, OneWayProgram, Zenon
    <2>2. QED
      BY <1>2, <2>1, Zenon DEF Called, OneWay, Ready
  <1>3. QED
    BY <1>1, <1>2, Zenon

\* A frame buffer that is shown begins with the program of a transfer without a wait.
LEMMA VideoCalled ==
  ASSUME MemoryTypes, NEW p \in Process, Opened(p), NEW c \in ChannelId, NEW a \in Address,
         Video(p, c, a)
  PROVE  Called(p)
  <1> DEFINE m == uservirt_to_dma(a)
  <1>1. CASE m = None
    BY <1>1, EmptyProgram, Zenon DEF Called, Video, Ready
  <1>2. CASE m # None
    <2>1. FALSE \in BOOLEAN
      OBVIOUS
    <2>2. Program(Prepare(c, m, FALSE) \o StartTransfer(c, m, FALSE))
      BY <1>2, <2>1, OneWayProgram, Zenon
    <2>3. QED
      BY <1>2, <2>2, Zenon DEF Called, Video, Ready
  <1>3. QED
    BY <1>1, <1>2, Zenon

\* A transfer in both directions begins with its program.
LEMMA TwoWayCalled ==
  ASSUME MemoryTypes, NEW p \in Process, Opened(p), NEW c \in ChannelId, NEW a \in Address,
         NEW d \in ChannelId, NEW b \in Address, NEW w \in BOOLEAN, TwoWay(p, c, a, d, b, w)
  PROVE  Called(p)
  <1> DEFINE m == uservirt_to_dma(a)
             n == uservirt_to_dma(b)
  <1>1. CASE None \in {m, n}
    BY <1>1, EmptyProgram, Zenon DEF Called, TwoWay, Ready
  <1>2. CASE None \notin {m, n}
    <2>1. m # None /\ n # None
      BY <1>2
    <2>2. Program(Prepare(c, m, FALSE) \o Prepare(d, n, w)
                   \o StartTransfer(c, m, FALSE) \o StartTransfer(d, n, w))
      BY <2>1, TwoWayProgram, Zenon
    <2>3. QED
      BY <1>2, <2>2, Zenon DEF Called, TwoWay, Ready
  <1>3. QED
    BY <1>1, <1>2, Zenon

\* Every step of the system is one of these.
LEMMA Steps ==
  ASSUME Types, LibNext
  PROVE  \/ Life /\ UNCHANGED lib
         \/ \E c \in ChannelId : (Finish(c) \/ TakeCallback(c) \/ Callback(c)) /\ UNCHANGED lib
         \/ \E p \in Process : ProcessStep(p)
  <1>1. CASE (Life \/ Engine) /\ UNCHANGED lib
    BY <1>1, Zenon DEF Engine
  <1>2. ASSUME NEW p \in Process, Handle(p) \/ Buffers(p) \/ Calls(p) \/ (Step(p) /\ UNCHANGED lib)
        PROVE  ProcessStep(p)
    <2>1. BuffersOf[tree].address \subseteq Address /\ BuffersOf[tree].exported \subseteq Exported
      <3>1. BuffersOf[tree] \in [address : SUBSET Address, exported : SUBSET Exported]
        BY BuffersAssumption DEF Types, DriverTypes
      <3>2. QED
        BY <3>1
    <2>2. CASE Handle(p)
      BY <2>2, Zenon DEF Handle, axidma_destroy, ProcessStep
    <2>3. CASE Buffers(p)
      <3>1. PICK a \in Address :
               \/ \E m \in Memory : axidma_malloc(p, a, m)
               \/ axidma_free(p, a)
               \/ \E x \in Exported : axidma_register_buffer(p, a, x)
               \/ Leaves(p, "aborted")
        BY <2>1, <2>3 DEF Buffers, axidma_unregister_buffer
      <3>2. QED
        BY <3>1, Zenon DEF ProcessStep
    <2>4. CASE Calls(p)
      <3>1. PICK a \in Address, c \in ChannelId :
               \/ \E w \in BOOLEAN : axidma_oneway_transfer(p, c, a, w)
               \/ \E b \in Address, d \in ChannelId, w \in BOOLEAN :
                    axidma_twoway_transfer(p, c, a, d, b, w)
               \/ axidma_video_transfer(p, c, a)
               \/ axidma_stop_transfer(p, c)
        BY <2>1, <2>4 DEF Calls
      <3>2. MemoryTypes
        BY DEF Types
      <3>3. CASE \E w \in BOOLEAN : axidma_oneway_transfer(p, c, a, w)
        BY <3>2, <3>3, OneWayCalled, Zenon DEF axidma_oneway_transfer, ProcessStep
      <3>4. CASE \E b \in Address, d \in ChannelId, w \in BOOLEAN :
                   axidma_twoway_transfer(p, c, a, d, b, w)
        BY <3>2, <3>4, TwoWayCalled, Zenon DEF axidma_twoway_transfer, ProcessStep
      <3>5. CASE axidma_video_transfer(p, c, a)
        BY <3>2, <3>5, VideoCalled, Zenon DEF axidma_video_transfer, ProcessStep
      <3>6. CASE axidma_stop_transfer(p, c)
        BY <3>6, Zenon DEF ProcessStep
      <3>7. QED
        BY <3>1, <3>3, <3>4, <3>5, <3>6, Zenon
    <2>5. CASE Step(p) /\ UNCHANGED lib
      BY <2>5, Zenon DEF ProcessStep
    <2>6. QED
      BY <1>2, <2>2, <2>3, <2>4, <2>5, Zenon
  <1>3. QED
    BY <1>1, <1>2, Zenon DEF LibNext

--------------------------------------------------------------------------------
(* what the steps do to a channel                                              *)

EngineEntry == [queue : Seq(Descriptor), used : Nat, last : Nat, inflight : BOOLEAN]

\* One channel of the engine changes.
LEMMA OneChannel ==
  ASSUME EngineTypes, NEW c \in ChannelId, NEW e \in EngineEntry,
         engine' = [engine EXCEPT ![c] = e]
  PROVE  /\ engine'[c] = e
         /\ \A d \in ChannelId : d # c => engine'[d] = engine[d]
         /\ engine' \in [ChannelId -> EngineEntry]
  BY DEF EngineTypes, EngineEntry

\* The hardware finishes the oldest descriptor that was issued.
LEMMA FinishEffect ==
  ASSUME EngineTypes, CallTypes, NEW c \in ChannelId, Finish(c)
  PROVE  \E i \in DOMAIN engine[c].queue :
           /\ engine[c].queue[i].state = "issued"
           /\ \A j \in DOMAIN engine[c].queue : engine[c].queue[j].state = "issued" => i <= j
           /\ engine'[c].queue = [engine[c].queue EXCEPT ![i] = [@ EXCEPT !.state = "done"]]
           /\ engine'[c].queue \in Seq(Descriptor)
           /\ engine'[c].last = engine[c].queue[i].cookie
           /\ engine'[c].used = engine[c].used /\ engine'[c].inflight = engine[c].inflight
           /\ \A d \in ChannelId : d # c => engine'[d] = engine[d]
           /\ engine' \in [ChannelId -> EngineEntry]
           /\ finished' = finished \cup
                (IF engine[c].queue[i].wait THEN {engine[c].queue[i].owner} ELSE {})
  <1> DEFINE q == engine[c].queue
             issued == {i \in DOMAIN q : q[i].state = "issued"}
  <1>1. q \in Seq(Descriptor) /\ Len(q) \in Nat /\ DOMAIN q = 1 .. Len(q)
    BY Fields
  <1>2. issued \in SUBSET Nat /\ issued # {}
    <2>1. issued # {}
      BY Zenon DEF Finish
    <2>2. QED
      BY <1>1, <2>1
  <1>3. PICK i \in issued : i = Min(issued) /\ \A j \in issued : i <= j
    BY <1>2, MinIs
  <1>4. /\ engine' = [engine EXCEPT ![c].queue[i].state = "done", ![c].last = q[i].cookie]
        /\ finished' = finished \cup (IF q[i].wait THEN {q[i].owner} ELSE {})
    BY <1>3, Zenon DEF Finish
  <1> DEFINE r == [q EXCEPT ![i] = [@ EXCEPT !.state = "done"]]
             e == [engine[c] EXCEPT !.queue = r, !.last = q[i].cookie]
  <1>5. engine' = [engine EXCEPT ![c] = e]
    <2>1. engine = [d \in ChannelId |-> engine[d]]
      BY DEF EngineTypes
    <2>2. QED
      BY <1>4, <2>1
  <1>6. i \in DOMAIN q /\ q[i] \in Descriptor /\ q[i].cookie \in Nat
    BY <1>1, <1>3, ElementIn, Fields
  <1>7. [q[i] EXCEPT !.state = "done"] \in Descriptor
    BY <1>6 DEF Descriptor
  <1>8. r \in Seq(Descriptor)
    BY <1>1, <1>6, <1>7, ExceptSeq
  <1>9. e \in EngineEntry /\ e.queue = r /\ e.last = q[i].cookie /\ e.used = engine[c].used
        /\ e.inflight = engine[c].inflight
    <2>1. engine[c] \in EngineEntry
      BY DEF EngineTypes, EngineEntry
    <2> HIDE DEF r
    <2>2. QED
      BY <1>6, <1>8, <2>1 DEF EngineEntry
  <1> HIDE DEF e
  <1>10. /\ engine'[c] = e
         /\ \A d \in ChannelId : d # c => engine'[d] = engine[d]
         /\ engine' \in [ChannelId -> EngineEntry]
    BY <1>5, <1>9, OneChannel, Zenon
  <1>11. q[i].state = "issued" /\ \A j \in DOMAIN q : q[j].state = "issued" => i <= j
    BY <1>3
  <1>12. QED
    BY <1>4, <1>6, <1>8, <1>9, <1>10, <1>11, Zenon

\* The tasklet takes a descriptor off.
LEMMA TakeEffect ==
  ASSUME EngineTypes, CallTypes, NEW c \in ChannelId, TakeCallback(c)
  PROVE  /\ engine[c].queue # <<>> /\ engine[c].queue[1].state = "done" /\ ~engine[c].inflight
         /\ engine'[c].queue = Tail(engine[c].queue)
         /\ engine'[c].queue \in Seq(Descriptor)
         /\ engine'[c].inflight
         /\ engine'[c].last = engine[c].last /\ engine'[c].used = engine[c].used
         /\ \A d \in ChannelId : d # c => engine'[d] = engine[d]
         /\ engine' \in [ChannelId -> EngineEntry]
  <1> DEFINE q == engine[c].queue
             e == [engine[c] EXCEPT !.queue = Tail(q), !.inflight = TRUE]
  <1>1. q \in Seq(Descriptor) /\ q # <<>>
    BY Fields DEF TakeCallback
  <1>2. engine' = [engine EXCEPT ![c] = e]
    <2>1. engine = [d \in ChannelId |-> engine[d]]
      BY DEF EngineTypes
    <2>2. QED
      BY <2>1 DEF TakeCallback
  <1>3. Tail(q) \in Seq(Descriptor) /\ Head(q) = q[1]
    BY <1>1
  <1>4. /\ e \in EngineEntry /\ e.queue = Tail(q) /\ e.inflight
        /\ e.used = engine[c].used /\ e.last = engine[c].last
    <2>1. engine[c] \in EngineEntry
      BY DEF EngineTypes, EngineEntry
    <2>2. QED
      BY <1>3, <2>1 DEF EngineEntry
  <1>5. Head(q).state = "done" /\ ~engine[c].inflight
    BY DEF TakeCallback
  <1> HIDE DEF e
  <1>6. QED
    BY <1>1, <1>2, <1>3, <1>4, <1>5, OneChannel

\* The callback is over.
LEMMA CallbackEffect ==
  ASSUME EngineTypes, CallTypes, NEW c \in ChannelId, Callback(c)
  PROVE  /\ engine[c].inflight /\ ~engine'[c].inflight
         /\ engine'[c].queue = engine[c].queue
         /\ engine'[c].last = engine[c].last /\ engine'[c].used = engine[c].used
         /\ \A d \in ChannelId : d # c => engine'[d] = engine[d]
         /\ engine' \in [ChannelId -> EngineEntry]
  <1> DEFINE e == [engine[c] EXCEPT !.inflight = FALSE]
  <1>1. /\ e \in EngineEntry /\ e.queue = engine[c].queue /\ ~e.inflight
        /\ e.used = engine[c].used /\ e.last = engine[c].last
    BY DEF EngineEntry, EngineTypes
  <1>2. engine' = [engine EXCEPT ![c] = e] /\ engine[c].inflight
    <2>1. engine = [d \in ChannelId |-> engine[d]]
      BY DEF EngineTypes
    <2>2. QED
      BY <2>1 DEF Callback
  <1> HIDE DEF e
  <1>3. QED
    BY <1>1, <1>2, OneChannel

\* dmaengine_terminate_all
LEMMA TerminatedEffect ==
  ASSUME EngineTypes, CallTypes, NEW c \in ChannelId,
         engine' = [engine EXCEPT ![c] = Terminated(@)]
  PROVE  /\ engine'[c].queue = <<>>
         /\ engine'[c].inflight = engine[c].inflight
         /\ engine'[c].last = engine[c].last /\ engine'[c].used = engine[c].used
         /\ \A d \in ChannelId : d # c => engine'[d] = engine[d]
         /\ engine' \in [ChannelId -> EngineEntry]
  <1> DEFINE e == Terminated(engine[c])
  <1>1. <<>> \in Seq(Descriptor)
    OBVIOUS
  <1>2. /\ e \in EngineEntry /\ e.queue = <<>> /\ e.inflight = engine[c].inflight
        /\ e.used = engine[c].used /\ e.last = engine[c].last
    BY <1>1 DEF EngineEntry, EngineTypes, Terminated
  <1>3. engine' = [engine EXCEPT ![c] = e]
    OBVIOUS
  <1> HIDE DEF e
  <1>4. QED
    BY <1>2, <1>3, OneChannel

\* All channels are terminated (axidma_remove).
LEMMA RemovedEffect ==
  ASSUME EngineTypes, CallTypes, engine' = [c \in ChannelId |-> Terminated(engine[c])]
  PROVE  /\ \A c \in ChannelId :
              /\ engine'[c].queue = <<>>
              /\ engine'[c].inflight = engine[c].inflight
              /\ engine'[c].last = engine[c].last /\ engine'[c].used = engine[c].used
         /\ engine' \in [ChannelId -> EngineEntry]
  <1>1. <<>> \in Seq(Descriptor)
    OBVIOUS
  <1>2. ASSUME NEW c \in ChannelId
        PROVE  /\ Terminated(engine[c]) \in EngineEntry
               /\ Terminated(engine[c]).queue = <<>>
               /\ Terminated(engine[c]).inflight = engine[c].inflight
               /\ Terminated(engine[c]).used = engine[c].used
               /\ Terminated(engine[c]).last = engine[c].last
    BY <1>1 DEF EngineEntry, EngineTypes, Terminated
  <1>3. QED
    BY <1>2

\* The first step of a call
LEMMA FirstStep ==
  ASSUME EngineTypes, CallTypes, NEW p \in Process, todo[p] # <<>>
  PROVE  /\ Head(todo[p]) = todo[p][1] /\ 1 \in DOMAIN todo[p]
         /\ Head(todo[p]) \in CallStep
         /\ Head(todo[p]).chan \in ChannelId /\ Head(todo[p]).mem \in Memory \cup Exported
         /\ Head(todo[p]).wait \in BOOLEAN
         /\ Tail(todo[p]) \in Seq(CallStep) /\ Len(Tail(todo[p])) = Len(todo[p]) - 1
         /\ DOMAIN Tail(todo[p]) = 1 .. (Len(todo[p]) - 1)
         /\ \A i \in DOMAIN Tail(todo[p]) : i + 1 \in DOMAIN todo[p] /\ Tail(todo[p])[i] = todo[p][i + 1]
         /\ Len(todo[p]) \in Nat /\ Len(todo[p]) > 0 /\ DOMAIN todo[p] = 1 .. Len(todo[p])
  <1>1. todo[p] \in Seq(CallStep)
    BY Fields
  <1>2. /\ Head(todo[p]) = todo[p][1] /\ 1 \in DOMAIN todo[p]
        /\ Head(todo[p]) \in CallStep
        /\ Tail(todo[p]) \in Seq(CallStep) /\ Len(Tail(todo[p])) = Len(todo[p]) - 1
        /\ DOMAIN Tail(todo[p]) = 1 .. (Len(todo[p]) - 1)
        /\ \A i \in DOMAIN Tail(todo[p]) : i + 1 \in DOMAIN todo[p] /\ Tail(todo[p])[i] = todo[p][i + 1]
        /\ Len(todo[p]) \in Nat /\ Len(todo[p]) > 0 /\ DOMAIN todo[p] = 1 .. Len(todo[p])
    BY <1>1
  <1>3. QED
    BY <1>2, Fields

\* A descriptor goes to the end of the queue.
LEMMA SubmitEffect ==
  ASSUME EngineTypes, CallTypes, NEW p \in Process, Submit(p)
  PROVE  LET t == Head(todo[p])
             c == t.chan
             d == [owner |-> p, mem |-> t.mem, cookie |-> engine[c].used + 1, wait |-> t.wait,
                   state |-> "submitted"] IN
           /\ engine'[c].queue = Append(engine[c].queue, d)
           /\ d \in Descriptor
           /\ engine'[c].queue \in Seq(Descriptor)
           /\ engine'[c].inflight = engine[c].inflight
           /\ engine'[c].last = engine[c].last /\ engine'[c].used = engine[c].used + 1
           /\ \A x \in ChannelId : x # c => engine'[x] = engine[x]
           /\ engine' \in [ChannelId -> EngineEntry]
           /\ cookie' = [cookie EXCEPT ![p] = engine[c].used + 1]
  <1> DEFINE t == Head(todo[p])
             c == t.chan
             k == engine[c].used + 1
             d == [owner |-> p, mem |-> t.mem, cookie |-> k, wait |-> t.wait, state |-> "submitted"]
             e == [engine[c] EXCEPT !.used = k, !.queue = Append(engine[c].queue, d)]
  <1>1. c \in ChannelId /\ t.mem \in Memory \cup Exported /\ t.wait \in BOOLEAN
    BY FirstStep DEF Submit, Doing
  <1> HIDE DEF t, c
  <1>2. d \in Descriptor /\ k \in Nat /\ engine[c].queue \in Seq(Descriptor)
    <2>1. engine[c].used \in Nat /\ engine[c].queue \in Seq(Descriptor)
      BY <1>1, Fields
    <2>2. QED
      BY <1>1, <2>1 DEF Descriptor
  <1>3. engine' = [engine EXCEPT ![c] = e] /\ cookie' = [cookie EXCEPT ![p] = k]
    <2>1. engine = [x \in ChannelId |-> engine[x]]
      BY DEF EngineTypes
    <2> HIDE DEF d, k
    <2>2. /\ engine' = [engine EXCEPT ![c].used = k, ![c].queue = Append(@, d)]
          /\ cookie' = [cookie EXCEPT ![p] = k]
      BY Zenon DEF Submit, d, k, c, t
    <2>3. QED
      BY <1>1, <2>1, <2>2
  <1> HIDE DEF d, k
  <1>4. Append(engine[c].queue, d) \in Seq(Descriptor)
    BY <1>2
  <1>5. /\ e \in EngineEntry /\ e.queue = Append(engine[c].queue, d)
        /\ e.inflight = engine[c].inflight /\ e.used = k /\ e.last = engine[c].last
    <2>1. engine[c] \in EngineEntry
      BY <1>1 DEF EngineTypes, EngineEntry
    <2>2. QED
      BY <1>2, <1>4, <2>1 DEF EngineEntry
  <1> HIDE DEF e
  <1>6. /\ engine'[c].queue = Append(engine[c].queue, d)
        /\ engine'[c].inflight = engine[c].inflight
        /\ engine'[c].last = engine[c].last /\ engine'[c].used = k
        /\ \A x \in ChannelId : x # c => engine'[x] = engine[x]
        /\ engine' \in [ChannelId -> EngineEntry]
    BY <1>1, <1>3, <1>5, OneChannel
  <1>7. QED
    BY <1>2, <1>3, <1>4, <1>6, Zenon DEF c, d, k, t

\* The descriptors of a channel are issued.
Started(q) == [i \in DOMAIN q |-> IF q[i].state = "submitted" THEN [q[i] EXCEPT !.state = "issued"]
                                  ELSE q[i]]
LEMMA IssueEffect ==
  ASSUME EngineTypes, CallTypes, NEW p \in Process, Issue(p)
  PROVE  LET c == Head(todo[p]).chan IN
           /\ engine'[c].queue = Started(engine[c].queue)
           /\ engine'[c].queue \in Seq(Descriptor)
           /\ Len(engine'[c].queue) = Len(engine[c].queue)
           /\ DOMAIN engine'[c].queue = DOMAIN engine[c].queue
           /\ engine'[c].inflight = engine[c].inflight
           /\ engine'[c].last = engine[c].last /\ engine'[c].used = engine[c].used
           /\ \A x \in ChannelId : x # c => engine'[x] = engine[x]
           /\ engine' \in [ChannelId -> EngineEntry]
  <1> DEFINE c == Head(todo[p]).chan
             q == engine[c].queue
             r == Started(q)
             e == [engine[c] EXCEPT !.queue = r]
  <1>1. c \in ChannelId
    BY FirstStep DEF Issue, Doing
  <1> HIDE DEF c
  <1>2. q \in Seq(Descriptor) /\ Len(q) \in Nat /\ DOMAIN q = 1 .. Len(q)
        /\ \A i \in DOMAIN q : q[i] \in Descriptor
    BY <1>1, Fields, ElementIn
  <1>3. \A d \in Descriptor : [d EXCEPT !.state = "issued"] \in Descriptor
    BY DEF Descriptor
  <1>4. \A i \in 1 .. Len(q) : r[i] \in Descriptor
    BY <1>2, <1>3 DEF Started
  <1>5. r = [i \in 1 .. Len(q) |-> r[i]]
    BY <1>2, Zenon DEF Started
  <1> HIDE DEF r
  <1>6. r \in Seq(Descriptor) /\ Len(r) = Len(q) /\ DOMAIN r = DOMAIN q
    <2>1. PICK n \in Nat : n = Len(q)
      BY <1>2
    <2>2. r = [i \in 1 .. n |-> r[i]] /\ \A i \in 1 .. n : r[i] \in Descriptor
      BY <1>4, <1>5, <2>1, Zenon
    <2>3. r \in Seq(Descriptor) /\ Len(r) = n /\ DOMAIN r = 1 .. n
      BY <2>2, BuiltIsSeq, Zenon
    <2>4. QED
      BY <1>2, <2>1, <2>3, Zenon
  <1>7. engine' = [engine EXCEPT ![c] = e]
    <2>1. engine = [x \in ChannelId |-> engine[x]]
      BY DEF EngineTypes
    <2>2. engine' = [engine EXCEPT ![c].queue =
             [i \in DOMAIN @ |-> IF @[i].state = "submitted" THEN [@[i] EXCEPT !.state = "issued"]
                                 ELSE @[i]]]
      BY Zenon DEF Issue, c
    <2>3. QED
      BY <1>1, <2>1, <2>2 DEF r, Started
  <1>8. /\ e \in EngineEntry /\ e.queue = r
        /\ e.inflight = engine[c].inflight /\ e.used = engine[c].used /\ e.last = engine[c].last
    <2>1. engine[c] \in EngineEntry
      BY <1>1 DEF EngineTypes, EngineEntry
    <2>2. QED
      BY <1>6, <2>1 DEF EngineEntry
  <1> HIDE DEF e
  <1>9. /\ engine'[c].queue = r
        /\ engine'[c].inflight = engine[c].inflight
        /\ engine'[c].last = engine[c].last /\ engine'[c].used = engine[c].used
        /\ \A x \in ChannelId : x # c => engine'[x] = engine[x]
        /\ engine' \in [ChannelId -> EngineEntry]
    BY <1>1, <1>7, <1>8, OneChannel
  <1>10. QED
    BY <1>6, <1>9, Zenon DEF c, r

--------------------------------------------------------------------------------
(* probe and remove                                                            *)

\* Probe has gone through its steps in order, and the table is there once the device
\* tree has been parsed.
Probed ==
  /\ Len(held) <= Len(ProbeOrder) /\ \A i \in DOMAIN held : held[i] = ProbeOrder[i]
  /\ driver = "live" <=> held = ProbeOrder
  /\ driver = "absent" <=> held = <<>>
  /\ Len(held) >= 2 => CountsChannels(tree)
  /\ Len(held) >= 4 => ParsesNodes(tree) /\ channels \in Tables(tree) /\ counts = Counts(tree)

\* Short sequences written out
LEMMA Tuples ==
  ASSUME NEW S, NEW a \in S, NEW b \in S, NEW c \in S, NEW d \in S, NEW e \in S
  PROVE  <<a, b, c, d, e>> \in Seq(S) /\ <<a, b, c, d>> \in Seq(S) /\ <<a>> \in Seq(S)
  OBVIOUS

\* The steps of probe: nine or ten of them, the device tree is read in the fourth
LEMMA ProbeOrderIs ==
  /\ ProbeOrder \in Seq(ProbeSteps) /\ Len(ProbeOrder) \in {9, 10}
  /\ ProbeOrder[2] = "channels" /\ ProbeOrder[4] = "parsed"
  /\ \A i \in 1 .. Len(ProbeOrder) : ProbeOrder[i] = "parsed" => i = 4
  <1> DEFINE a == <<"struct", "channels", "cb_data", "parsed", "requested">>
             b == IF tree.index > 0 THEN <<"name">> ELSE <<>>
             c == <<"region", "class", "node", "cdev">>
             n == IF tree.index > 0 THEN 1 ELSE 0
             s == (a \o b) \o c
  <1>1. a \in Seq(ProbeSteps) /\ b \in Seq(ProbeSteps) /\ c \in Seq(ProbeSteps)
    <2>1. /\ "struct" \in ProbeSteps /\ "channels" \in ProbeSteps /\ "cb_data" \in ProbeSteps
          /\ "parsed" \in ProbeSteps /\ "requested" \in ProbeSteps /\ "name" \in ProbeSteps
          /\ "region" \in ProbeSteps /\ "class" \in ProbeSteps /\ "node" \in ProbeSteps
          /\ "cdev" \in ProbeSteps
      BY Zenon DEF ProbeSteps
    <2>2. /\ \A x1, x2, x3, x4, x5 \in ProbeSteps : <<x1, x2, x3, x4, x5>> \in Seq(ProbeSteps)
          /\ \A x1, x2, x3, x4 \in ProbeSteps : <<x1, x2, x3, x4>> \in Seq(ProbeSteps)
          /\ \A x1 \in ProbeSteps : <<x1>> \in Seq(ProbeSteps)
          /\ <<>> \in Seq(ProbeSteps)
      BY ONLY Tuples
    <2>3. a \in Seq(ProbeSteps)
      BY <2>1, <2>2, Zenon
    <2>4. c \in Seq(ProbeSteps)
      BY <2>1, <2>2, Zenon
    <2>5. <<"name">> \in Seq(ProbeSteps) /\ <<>> \in Seq(ProbeSteps)
      BY <2>1, <2>2, Zenon
    <2>6. QED
      BY <2>3, <2>4, <2>5, Zenon
  <1>2. n \in {0, 1} /\ Len(a) = 5 /\ Len(b) = n /\ Len(c) = 4
    OBVIOUS
  <1>3. /\ a[2] = "channels" /\ a[4] = "parsed"
        /\ a[1] # "parsed" /\ a[2] # "parsed" /\ a[3] # "parsed" /\ a[5] # "parsed"
        /\ n = 1 => b[1] # "parsed"
        /\ c[1] # "parsed" /\ c[2] # "parsed" /\ c[3] # "parsed" /\ c[4] # "parsed"
    OBVIOUS
  <1>4. ProbeOrder = s
    BY Zenon DEF ProbeOrder
  <1> HIDE DEF a, b, c, n
  <1> DEFINE ab == a \o b
  <1>5. \A x, y \in Seq(ProbeSteps) :
          /\ x \o y \in Seq(ProbeSteps) /\ Len(x \o y) = Len(x) + Len(y)
          /\ \A i \in 1 .. Len(x) + Len(y) : (x \o y)[i] = IF i <= Len(x) THEN x[i] ELSE y[i - Len(x)]
    BY ConcatProperties
  <1>6. /\ s \in Seq(ProbeSteps) /\ Len(s) = 9 + n
        /\ \A i \in 1 .. 5 : s[i] = a[i]
        /\ n = 1 => s[6] = b[1]
        /\ \A i \in 1 .. 4 : s[5 + n + i] = c[i]
    <2>1. /\ ab \in Seq(ProbeSteps) /\ Len(ab) = Len(a) + Len(b)
          /\ \A i \in 1 .. Len(a) + Len(b) : ab[i] = IF i <= Len(a) THEN a[i] ELSE b[i - Len(a)]
      BY <1>1, <1>5, Zenon
    <2>2. s = ab \o c
      BY Zenon
    <2> HIDE DEF ab, s
    <2>3. /\ s \in Seq(ProbeSteps) /\ Len(s) = Len(ab) + Len(c)
          /\ \A i \in 1 .. Len(ab) + Len(c) : s[i] = IF i <= Len(ab) THEN ab[i] ELSE c[i - Len(ab)]
      BY <1>1, <1>5, <2>1, <2>2, Zenon
    <2>4. Len(ab) = 5 + n /\ \A i \in 1 .. 5 + n : ab[i] = IF i <= 5 THEN a[i] ELSE b[i - 5]
      BY <1>2, <2>1
    <2>5. Len(s) = 9 + n /\ \A i \in 1 .. 9 + n : s[i] = IF i <= 5 + n THEN ab[i] ELSE c[i - (5 + n)]
      BY <1>2, <2>3, <2>4
    <2>6. \A i \in 1 .. 5 : s[i] = a[i]
      BY <1>2, <2>4, <2>5
    <2>7. n = 1 => s[6] = b[1]
      BY <1>2, <2>4, <2>5
    <2>8. ASSUME NEW i \in 1 .. 4 PROVE s[5 + n + i] = c[i]
      <3>1. PICK j \in 1 .. 9 + n : j = 5 + n + i /\ ~(j <= 5 + n) /\ j - (5 + n) = i
        BY <1>2
      <3>2. s[j] = c[i]
        BY <2>5, <3>1, Zenon
      <3>3. QED
        BY <3>1, <3>2, Zenon
    <2>9. QED
      BY <2>3, <2>5, <2>6, <2>7, <2>8
  <1> HIDE DEF s
  <1>7. s[2] = "channels" /\ s[4] = "parsed" /\ Len(s) \in {9, 10}
    BY <1>2, <1>3, <1>6
  <1>8. ASSUME NEW i \in 1 .. Len(s), s[i] = "parsed" PROVE i = 4
    <2>1. CASE i <= 5
      <3>1. i \in 1 .. 5 /\ (i = 1 \/ i = 2 \/ i = 3 \/ i = 4 \/ i = 5)
        BY <1>2, <1>6, <2>1
      <3>2. QED
        BY <1>3, <1>6, <1>8, <3>1
    <2>2. CASE i > 5 + n
      <3>1. PICK j \in 1 .. 4 : i = 5 + n + j
        BY <1>2, <1>6, <2>2
      <3>2. s[i] = c[j] /\ (j = 1 \/ j = 2 \/ j = 3 \/ j = 4)
        BY <1>6, <3>1
      <3>3. QED
        BY <1>3, <1>8, <3>2
    <2>3. CASE i > 5 /\ ~(i > 5 + n)
      BY <1>2, <1>3, <1>6, <1>8, <2>3
    <2>4. QED
      BY <1>2, <1>6, <2>1, <2>2, <2>3
  <1>9. QED
    BY <1>4, <1>6, <1>7, <1>8, Zenon

\* A table that parsing leaves is one of channels.
LEMMA TableIs ==
  ASSUME tree \in Tree, NEW s \in Tables(tree)
  PROVE  /\ s \in Seq(Channel) /\ Len(s) = Len(tree.dmas) /\ Len(s) \in Nat
         /\ DOMAIN tree.dmas = 1 .. Len(s)
         /\ \A i \in 1 .. Len(s) :
              /\ s[i].id = Child(tree.dmas[i]).id
              /\ Child(tree.dmas[i]).compatible \in {s[i].kind, "absent"}
              /\ s[i].kind \in Kinds
  <1>1. PICK n \in Nat : n = Len(tree.dmas) /\ DOMAIN tree.dmas = 1 .. n
    BY TreeAssumption
  <1>2. s \in [1 .. n -> Channel]
    BY <1>1 DEF Tables, Channel
  <1>3. s \in Seq(Channel) /\ Len(s) = n
    BY <1>2
  <1>4. \A i \in 1 .. n : s[i].id = Child(tree.dmas[i]).id
                         /\ Child(tree.dmas[i]).compatible \in {s[i].kind, "absent"}
    BY <1>1, Zenon DEF Tables
  <1>5. \A i \in 1 .. n : s[i].kind \in Kinds
    BY <1>2 DEF Channel
  <1>6. QED
    BY <1>1, <1>3, <1>4, <1>5

\* A step of probe keeps to the order; a failure and the removal begin anew.
LEMMA LifeProbed ==
  ASSUME DriverTypes, Probed, Life
  PROVE  DriverTypes' /\ Probed'
  <1>1. CASE ProbeStep
    <2> DEFINE n == Len(held)
    <2>1. /\ tree' = tree /\ leaked' = leaked /\ ProbeOrder' = ProbeOrder
          /\ driver # "live" /\ driver \in {"absent", "probing"}
          /\ held' = Append(held, ProbeOrder[n + 1])
          /\ driver' = IF held' = ProbeOrder THEN "live" ELSE "probing"
          /\ ~MustFail(ProbeOrder[n + 1])
      BY <1>1 DEF ProbeStep, driverVars, NextStep, ProbeOrder
    <2>2. n \in Nat /\ Len(ProbeOrder) \in Nat /\ n < Len(ProbeOrder)
          /\ \A i \in 1 .. n : held[i] = ProbeOrder[i]
      <3>1. held \in Seq(ProbeSteps) /\ ProbeOrder \in Seq(ProbeSteps) /\ held # ProbeOrder
        BY <2>1, ProbeOrderIs DEF DriverTypes, Probed
      <3>2. \A i \in 1 .. n : held[i] = ProbeOrder[i]
        BY <3>1 DEF Probed
      <3>3. n # Len(ProbeOrder)
        BY <3>1, <3>2, SeqEqual
      <3>4. QED
        BY <3>1, <3>2, <3>3 DEF Probed
    <2>3. n + 1 \in 1 .. Len(ProbeOrder) /\ ProbeOrder[n + 1] \in ProbeSteps
      BY <2>2, ProbeOrderIs
    <2>4. /\ held' \in Seq(ProbeSteps) /\ Len(held') = n + 1 /\ held' # <<>>
          /\ \A i \in 1 .. n + 1 : held'[i] = ProbeOrder[i]
      BY <2>1, <2>2, <2>3, AppendProperties DEF DriverTypes
    <2>5. n + 1 = 2 => CountsChannels(tree)
      BY <2>1, ProbeOrderIs DEF MustFail
    <2>6. CASE n + 1 = 4
      <3>1. /\ NextStep = "parsed" /\ ParsesNodes(tree)
        BY <2>1, <2>6, ProbeOrderIs DEF MustFail, NextStep
      <3>2. channels' \in Tables(tree) /\ counts' = Counts(tree)
        BY <1>1, <3>1 DEF ProbeStep
      <3>3. channels' \in Seq(Channel)
        BY <3>2, TableIs DEF DriverTypes
      <3>4. CountsChannels(tree)
        BY <2>6 DEF Probed
      <3>5. DriverTypes'
        BY <2>1, <2>4, <3>3 DEF DriverTypes
      <3>6. QED
        BY <2>1, <2>2, <2>4, <2>6, <3>1, <3>2, <3>4, <3>5 DEF Probed
    <2>7. CASE n + 1 # 4
      <3>1. NextStep # "parsed"
        BY <2>3, <2>7, ProbeOrderIs DEF NextStep
      <3>2. channels' = channels /\ counts' = counts
        BY <1>1, <3>1 DEF ProbeStep
      <3>3. DriverTypes'
        BY <2>1, <2>4, <3>2 DEF DriverTypes
      <3>4. n + 1 >= 2 => CountsChannels(tree)
        BY <2>2, <2>5 DEF Probed
      <3>5. n + 1 >= 4 =>
              ParsesNodes(tree) /\ channels \in Tables(tree) /\ counts = Counts(tree)
        BY <2>2, <2>7 DEF Probed
      <3>6. QED
        BY <2>1, <2>2, <2>4, <3>2, <3>3, <3>4, <3>5 DEF Probed
    <2>8. QED
      BY <2>6, <2>7
  <1>2. CASE ProbeFails \/ (axidma_remove /\ \A p \in Process : lib[p].stage # "ready")
    <2>1. /\ driver' = "absent" /\ held' = <<>> /\ channels' = <<>> /\ tree' = tree
          /\ ProbeOrder' = ProbeOrder
          /\ leaked' = leaked \/ leaked' = leaked \cup Unreleased(NextStep)
      BY <1>2 DEF ProbeFails, axidma_remove, ProbeOrder
    <2>2. Unreleased(NextStep) \subseteq {"channels", "cb_data", "requested"}
      BY DEF Unreleased
    <2>3. <<>> \in Seq(ProbeSteps) /\ <<>> \in Seq(Channel) /\ Len(<<>>) = 0 /\ DOMAIN <<>> = {}
      OBVIOUS
    <2>4. DriverTypes'
      BY <2>1, <2>2, <2>3 DEF DriverTypes
    <2>5. ProbeOrder # <<>> /\ Len(ProbeOrder) \in Nat
      BY ProbeOrderIs
    <2>6. QED
      BY <2>1, <2>3, <2>4, <2>5 DEF Probed
  <1>3. QED
    BY <1>1, <1>2, Zenon DEF Life

\* Before probe
LEMMA InitProbed == DmaInit => DriverTypes /\ Probed
  <1> SUFFICES ASSUME DmaInit PROVE DriverTypes /\ Probed
    OBVIOUS
  <1>1. /\ driver = "absent" /\ held = <<>> /\ leaked = {} /\ tree \in Tree /\ channels = <<>>
    BY DEF DmaInit
  <1>2. <<>> \in Seq(ProbeSteps) /\ <<>> \in Seq(Channel) /\ Len(<<>>) = 0 /\ DOMAIN <<>> = {}
    OBVIOUS
  <1>3. ProbeOrder # <<>> /\ Len(ProbeOrder) \in Nat
    BY ProbeOrderIs
  <1>4. QED
    BY <1>1, <1>2, <1>3 DEF DriverTypes, Probed

--------------------------------------------------------------------------------
(* what the steps do to a call                                                 *)

\* The call goes on, fails, or returns.
Failed(p) ==
  /\ Len(todo'[p]) = 1 /\ todo'[p][1].op = "terminate"
  /\ todo'[p][1].chan = Head(todo[p]).chan
  /\ todo'[p][1].mem = Head(todo[p]).mem /\ todo'[p][1].wait = Head(todo[p]).wait
OnlyCallOf(p) ==
  /\ \A q \in Process : q # p => todo'[q] = todo[q]
  /\ todo' \in [Process -> Seq(CallStep)]

\* One call changes.
LEMMA OneCall ==
  ASSUME CallTypes, NEW p \in Process, NEW s \in Seq(CallStep), todo' = [todo EXCEPT ![p] = s]
  PROVE  OnlyCallOf(p) /\ todo'[p] = s
  BY DEF CallTypes, OnlyCallOf

\* The call goes on with the rest of its steps.
LEMMA Advanced ==
  ASSUME EngineTypes, CallTypes, NEW p \in Process, todo[p] # <<>>, Advance(p)
  PROVE  OnlyCallOf(p) /\ todo'[p] = Tail(todo[p])
  <1>1. Tail(todo[p]) \in Seq(CallStep)
    BY FirstStep
  <1>2. todo' = [todo EXCEPT ![p] = Tail(todo[p])]
    BY DEF Advance
  <1>3. QED
    BY <1>1, <1>2, OneCall

\* The call fails: one step is left, on the same channel.
LEMMA FailedEffect ==
  ASSUME EngineTypes, CallTypes, NEW p \in Process, todo[p] # <<>>, FailWith(p, "terminate")
  PROVE  OnlyCallOf(p) /\ Failed(p) /\ todo'[p] # <<>>
  <1> DEFINE t == [Head(todo[p]) EXCEPT !.op = "terminate"]
  <1>1. Head(todo[p]) \in CallStep
    BY FirstStep
  <1>2. /\ t \in CallStep /\ t.op = "terminate" /\ t.chan = Head(todo[p]).chan
        /\ t.mem = Head(todo[p]).mem /\ t.wait = Head(todo[p]).wait
    BY <1>1 DEF CallStep
  <1>3. todo' = [todo EXCEPT ![p] = <<t>>]
    BY DEF FailWith
  <1> HIDE DEF t
  <1>4. <<t>> \in Seq(CallStep) /\ Len(<<t>>) = 1 /\ <<t>>[1] = t /\ <<t>> # <<>>
    BY <1>2
  <1>5. OnlyCallOf(p) /\ todo'[p] = <<t>>
    BY <1>3, <1>4, OneCall
  <1>6. QED
    BY <1>2, <1>4, <1>5 DEF Failed

\* The call returns.
LEMMA Returned ==
  ASSUME CallTypes, NEW p \in Process, Return(p)
  PROVE  /\ OnlyCallOf(p) /\ todo'[p] = <<>>
         /\ cookie' \in [Process -> Nat] /\ \A q \in Process : q # p => cookie'[q] = cookie[q]
         /\ completed' = completed \ {p} /\ finished' = finished \ {p}
  <1>1. <<>> \in Seq(CallStep)
    OBVIOUS
  <1>2. OnlyCallOf(p) /\ todo'[p] = <<>>
    BY <1>1, OneCall DEF Return
  <1>3. QED
    BY <1>2 DEF Return, CallTypes

\* Every step of a call does one of the three, and keeps the types.
LEMMA StepMoves ==
  ASSUME EngineTypes, CallTypes, NEW p \in Process, Step(p)
  PROVE  /\ todo[p] # <<>> /\ OnlyCallOf(p)
         /\ todo'[p] = Tail(todo[p]) \/ todo'[p] = <<>> \/ Failed(p)
         /\ cookie' \in [Process -> Nat] /\ completed' \subseteq Process
  <1>1. CASE Prep(p)
    <2>1. OnlyCallOf(p) /\ todo'[p] = Tail(todo[p]) /\ todo[p] # <<>>
      BY <1>1, Advanced DEF Prep, Doing
    <2>2. completed' \subseteq Process /\ cookie' = cookie
      BY <1>1 DEF Prep, CallTypes
    <2>3. QED
      BY <2>1, <2>2 DEF CallTypes
  <1>2. CASE Submit(p)
    <2>1. OnlyCallOf(p) /\ todo'[p] = Tail(todo[p]) /\ todo[p] # <<>>
      BY <1>2, Advanced DEF Submit, Doing
    <2>2. Head(todo[p]).chan \in ChannelId
      BY <2>1, FirstStep
    <2>3. engine[Head(todo[p]).chan].used + 1 \in Nat
      BY <2>2, Fields
    <2>4. cookie' = [cookie EXCEPT ![p] = engine[Head(todo[p]).chan].used + 1] /\ completed' = completed
      BY <1>2 DEF Submit
    <2>5. QED
      BY <2>1, <2>3, <2>4 DEF CallTypes
  <1>3. CASE PrepareFails(p)
    <2>1. OnlyCallOf(p) /\ Failed(p) /\ todo[p] # <<>>
      BY <1>3, FailedEffect DEF PrepareFails, Doing
    <2>2. cookie' = cookie /\ completed' = completed
      BY <1>3 DEF PrepareFails
    <2>3. QED
      BY <2>1, <2>2 DEF CallTypes
  <1>4. CASE Issue(p)
    <2>1. todo[p] # <<>>
      BY <1>4 DEF Issue, Doing
    <2>2. CASE Return(p)
      BY <2>1, <2>2, Returned DEF CallTypes
    <2>3. CASE Advance(p) /\ UNCHANGED <<cookie, completed>>
      BY <2>1, <2>3, Advanced DEF CallTypes
    <2>4. QED
      BY <1>4, <2>2, <2>3 DEF Issue
  <1>5. CASE WaitDone(p)
    <2>1. todo[p] # <<>>
      BY <1>5 DEF WaitDone, Doing
    <2>2. CASE Return(p)
      BY <2>1, <2>2, Returned DEF CallTypes
    <2>3. CASE FailWith(p, "terminate") /\ UNCHANGED <<cookie, completed>>
      BY <2>1, <2>3, FailedEffect DEF CallTypes
    <2>4. QED
      BY <1>5, <2>2, <2>3 DEF WaitDone
  <1>6. CASE WaitTimeout(p)
    <2>1. OnlyCallOf(p) /\ Failed(p) /\ todo[p] # <<>>
      BY <1>6, FailedEffect DEF WaitTimeout, Doing
    <2>2. cookie' = cookie /\ completed' = completed
      BY <1>6 DEF WaitTimeout
    <2>3. QED
      BY <2>1, <2>2 DEF CallTypes
  <1>7. CASE Terminate(p)
    <2>1. todo[p] # <<>> /\ Return(p)
      BY <1>7 DEF Terminate, Doing
    <2>2. QED
      BY <2>1, Returned DEF CallTypes
  <1>8. QED
    BY <1>1, <1>2, <1>3, <1>4, <1>5, <1>6, <1>7, Zenon DEF Step

--------------------------------------------------------------------------------
(* what the steps do to the lists and to the types                             *)

MemoryEntry(M) == [owner : Process, addr : Address, mem : M]

\* A new entry at the head of a list
LEMMA PutFirst ==
  ASSUME NEW S, NEW s \in Seq(S), NEW e \in S
  PROVE  /\ <<e>> \o s \in Seq(S) /\ DOMAIN (<<e>> \o s) = 1 .. Len(s) + 1
         /\ (<<e>> \o s)[1] = e /\ \A i \in DOMAIN s : i + 1 \in DOMAIN (<<e>> \o s) /\ (<<e>> \o s)[i + 1] = s[i]
         /\ \A i \in DOMAIN (<<e>> \o s) :
              (<<e>> \o s)[i] = e \/ \E j \in DOMAIN s : (<<e>> \o s)[i] = s[j]
  <1>1. <<e>> \in Seq(S) /\ Len(<<e>>) = 1 /\ <<e>>[1] = e
    OBVIOUS
  <1> DEFINE a == <<e>>
             t == a \o s
  <1> HIDE DEF a
  <1>2. /\ t \in Seq(S) /\ Len(t) = Len(a) + Len(s)
        /\ \A i \in 1 .. Len(a) + Len(s) : t[i] = IF i <= Len(a) THEN a[i] ELSE s[i - Len(a)]
    BY <1>1, ConcatProperties DEF a
  <1>3. Len(a) = 1 /\ a[1] = e
    BY <1>1, Zenon DEF a
  <1> HIDE DEF t
  <1>4. /\ t \in Seq(S) /\ Len(t) = 1 + Len(s) /\ DOMAIN t = 1 .. Len(s) + 1
        /\ t[1] = e
        /\ \A i \in 1 .. Len(s) : t[i + 1] = s[i]
    BY <1>2, <1>3
  <1>5. \A i \in DOMAIN s : i + 1 \in DOMAIN t /\ t[i + 1] = s[i]
    BY <1>4
  <1>6. \A i \in DOMAIN t : t[i] = e \/ \E j \in DOMAIN s : t[i] = s[j]
    <2> SUFFICES ASSUME NEW i \in DOMAIN t, i # 1
                 PROVE  \E j \in DOMAIN s : t[i] = s[j]
      BY <1>4
    <2>1. Len(s) \in Nat /\ DOMAIN s = 1 .. Len(s)
      OBVIOUS
    <2>2. i \in 1 .. Len(s) + 1
      BY <1>4
    <2>3. PICK j \in 1 .. Len(s) : j = i - 1 /\ i = j + 1
      BY <2>1, <2>2
    <2>4. QED
      BY <1>4, <2>1, <2>3
  <1>7. QED
    BY <1>4, <1>5, <1>6, Zenon DEF t, a

\* An entry taken out of a list
LEMMA TakenOut ==
  ASSUME NEW S, NEW s \in Seq(S), NEW k \in DOMAIN s
  PROVE  /\ RemoveAt(s, k) \in Seq(S)
         /\ \A i \in DOMAIN RemoveAt(s, k) : \E j \in DOMAIN s : RemoveAt(s, k)[i] = s[j]
         /\ \A j \in DOMAIN s : j # k => \E i \in DOMAIN RemoveAt(s, k) : RemoveAt(s, k)[i] = s[j]
  <1> DEFINE a == SubSeq(s, 1, k - 1)
             b == SubSeq(s, k + 1, Len(s))
             t == a \o b
             n == Len(s)
  <1>1. n \in Nat /\ k \in 1 .. n /\ DOMAIN s = 1 .. n
    OBVIOUS
  <1>2. /\ a \in Seq(S) /\ Len(a) = k - 1
        /\ \A i \in 1 .. k - 1 : a[i] = s[i]
    BY <1>1, SubSeqProperties
  <1>3. /\ b \in Seq(S) /\ Len(b) = n - k
        /\ \A i \in 1 .. n - k : b[i] = s[k + i]
    BY <1>1, SubSeqProperties
  <1> HIDE DEF a, b
  <1>4. /\ t \in Seq(S) /\ Len(t) = Len(a) + Len(b)
        /\ \A i \in 1 .. Len(a) + Len(b) : t[i] = IF i <= Len(a) THEN a[i] ELSE b[i - Len(a)]
    BY <1>2, <1>3, ConcatProperties
  <1> HIDE DEF t, n
  <1>5. DOMAIN t = 1 .. n - 1 /\ \A i \in 1 .. n - 1 : t[i] = IF i < k THEN s[i] ELSE s[i + 1]
    <2>1. Len(t) = n - 1 /\ Len(a) + Len(b) = n - 1
      BY <1>1, <1>2, <1>3, <1>4
    <2>2. DOMAIN t = 1 .. n - 1
      BY <1>4, <2>1
    <2>3. ASSUME NEW i \in 1 .. n - 1 PROVE t[i] = IF i < k THEN s[i] ELSE s[i + 1]
      <3>1. t[i] = IF i <= k - 1 THEN a[i] ELSE b[i - (k - 1)]
        BY <1>1, <1>2, <1>4, <2>1
      <3>2. CASE i < k
        BY <1>1, <1>2, <3>1, <3>2
      <3>3. CASE ~(i < k)
        <4>1. i - (k - 1) \in 1 .. n - k /\ k + (i - (k - 1)) = i + 1
          BY <1>1, <3>3
        <4>2. QED
          BY <1>1, <1>3, <3>1, <3>3, <4>1
      <3>4. QED
        BY <3>2, <3>3
    <2>4. QED
      BY <2>2, <2>3
  <1>6. ASSUME NEW i \in DOMAIN t PROVE \E j \in DOMAIN s : t[i] = s[j]
    BY <1>1, <1>5
  <1>7. ASSUME NEW j \in DOMAIN s, j # k PROVE \E i \in DOMAIN t : t[i] = s[j]
    <2>1. CASE j < k
      BY <1>1, <1>5, <2>1
    <2>2. CASE j > k
      <3>1. PICK i \in 1 .. n - 1 : i = j - 1 /\ ~(i < k)
        BY <1>1, <2>2
      <3>2. QED
        BY <1>1, <1>5, <3>1
    <2>3. QED
      BY <1>1, <1>7, <2>1, <2>2
  <1>8. RemoveAt(s, k) = t
    BY Zenon DEF RemoveAt, t, a, b, n
  <1>9. QED
    BY <1>4, <1>6, <1>7, <1>8, Zenon

\* Only probe and remove change the driver's own state.
LEMMA DriverStays ==
  ASSUME NEW p, NEW c,
         ProcessStep(p) \/ Finish(c) \/ TakeCallback(c) \/ Callback(c)
  PROVE  UNCHANGED driverVars
  <1>1. CASE Finish(c) \/ TakeCallback(c) \/ Callback(c)
    BY <1>1, Zenon DEF Finish, TakeCallback, Callback
  <1>2. CASE \/ axidma_init_dev(p) \/ Leaves(p, "closed") \/ Leaves(p, "aborted")
             \/ Called(p) \/ \E d \in ChannelId : axidma_stop_transfer(p, d)
    BY <1>2, Zenon DEF axidma_init_dev, Leaves, Called, Begin, axidma_stop_transfer, StopChannel,
                       dmaVars
  <1>3. CASE \/ \E a \in Address, m \in Memory : axidma_malloc(p, a, m)
             \/ \E a \in Address : axidma_free(p, a)
             \/ \E a \in Address, x \in Exported : axidma_register_buffer(p, a, x)
    BY <1>3, Zenon DEF axidma_malloc, axidma_mmap, axidma_free, axidma_vma_close,
                       axidma_register_buffer, axidma_get_external
  <1>4. CASE Step(p)
    BY <1>4, Zenon DEF Step, Prep, Submit, PrepareFails, Issue, WaitDone, WaitTimeout, Terminate
  <1>5. QED
    BY <1>1, <1>2, <1>3, <1>4, Zenon DEF ProcessStep

\* The lists of memory change in a few ways only.
LEMMA MemoryMoves ==
  ASSUME MemoryTypes, LibNext, Types
  PROVE  \/ UNCHANGED memoryVars /\ exposed \subseteq exposed'
         \/ \E p \in Process, a \in Address, m \in Memory :
              axidma_malloc(p, a, m) /\ UNCHANGED <<externals, engine, todo>>
         \/ \E p \in Process, a \in Address :
              axidma_free(p, a) /\ UNCHANGED <<externals, engine, todo>>
         \/ \E p \in Process, a \in Address, x \in Exported :
              axidma_register_buffer(p, a, x) /\ UNCHANGED <<dmabufs, engine, todo>>
         \/ axidma_remove
  <1>1. CASE Life
    BY <1>1 DEF Life, ProbeStep, ProbeFails, historyVars
  <1>2. CASE \E c \in ChannelId : Finish(c) \/ TakeCallback(c) \/ Callback(c)
    BY <1>2 DEF Finish, TakeCallback, Callback, historyVars
  <1>3. ASSUME NEW p \in Process, ProcessStep(p)
        PROVE  \/ UNCHANGED memoryVars /\ exposed \subseteq exposed'
               \/ \E a \in Address, m \in Memory :
                    axidma_malloc(p, a, m) /\ UNCHANGED <<externals, engine, todo>>
               \/ \E a \in Address : axidma_free(p, a) /\ UNCHANGED <<externals, engine, todo>>
               \/ \E a \in Address, x \in Exported :
                    axidma_register_buffer(p, a, x) /\ UNCHANGED <<dmabufs, engine, todo>>
    <2>1. CASE \/ axidma_init_dev(p) \/ Leaves(p, "closed") \/ Leaves(p, "aborted")
               \/ Called(p) \/ \E d \in ChannelId : axidma_stop_transfer(p, d)
      BY <2>1 DEF axidma_init_dev, Leaves, Called, Begin, axidma_stop_transfer, StopChannel,
                  dmaVars, historyVars
    <2>2. CASE \/ \E a \in Address, m \in Memory : axidma_malloc(p, a, m)
               \/ \E a \in Address : axidma_free(p, a)
               \/ \E a \in Address, x \in Exported : axidma_register_buffer(p, a, x)
      BY <2>2 DEF axidma_malloc, axidma_mmap, axidma_free, axidma_vma_close,
                  axidma_register_buffer, axidma_get_external, callVars
    <2>3. CASE Step(p)
      <3>1. UNCHANGED memoryVars
        BY <2>3, Zenon
           DEF Step, Prep, Submit, PrepareFails, Issue, WaitDone, WaitTimeout, Terminate
      <3>2. UNCHANGED exposed
        BY <2>3 DEF Step, Prep, Submit, PrepareFails, Issue, WaitDone, WaitTimeout, Terminate,
                    historyVars
      <3>3. QED
        BY <3>1, <3>2
    <2>4. QED
      BY <1>3, <2>1, <2>2, <2>3, Zenon DEF ProcessStep
  <1>4. QED
    BY <1>1, <1>2, <1>3, Steps, Zenon

\* The lists keep their types.
LEMMA MemoryTyped ==
  ASSUME Types, LibNext
  PROVE  MemoryTypes'
  <1> USE DEF MemoryEntry
  <1>1. /\ dmabufs \in Seq(MemoryEntry(Memory)) /\ externals \in Seq(MemoryEntry(Exported))
        /\ MemoryTypes
    BY DEF Types, MemoryTypes
  <1>2. ASSUME NEW p \in Process, NEW a \in Address, NEW m \in Memory, axidma_malloc(p, a, m),
               UNCHANGED externals
        PROVE  MemoryTypes'
    <2>1. [owner |-> p, addr |-> a, mem |-> m] \in MemoryEntry(Memory)
      OBVIOUS
    <2>2. dmabufs' = <<[owner |-> p, addr |-> a, mem |-> m]>> \o dmabufs
      BY <1>2, Zenon DEF axidma_malloc, axidma_mmap
    <2> HIDE DEF MemoryEntry
    <2>3. dmabufs' \in Seq(MemoryEntry(Memory))
      BY <1>1, <2>1, <2>2, PutFirst, Zenon
    <2>4. QED
      BY <1>1, <1>2, <2>3 DEF MemoryTypes, MemoryEntry
  <1>3. ASSUME NEW p \in Process, NEW a \in Address, NEW x \in Exported,
               axidma_register_buffer(p, a, x), UNCHANGED dmabufs
        PROVE  MemoryTypes'
    <2>1. [owner |-> p, addr |-> a, mem |-> x] \in MemoryEntry(Exported)
      OBVIOUS
    <2>2. externals' = <<[owner |-> p, addr |-> a, mem |-> x]>> \o externals
      BY <1>3, Zenon DEF axidma_register_buffer, axidma_get_external
    <2> HIDE DEF MemoryEntry
    <2>3. externals' \in Seq(MemoryEntry(Exported))
      BY <1>1, <2>1, <2>2, PutFirst, Zenon
    <2>4. QED
      BY <1>1, <1>3, <2>3 DEF MemoryTypes, MemoryEntry
  <1>4. ASSUME NEW p \in Process, NEW a \in Address, axidma_free(p, a), UNCHANGED externals
        PROVE  MemoryTypes'
    <2>1. PICK i \in DOMAIN dmabufs : dmabufs' = RemoveAt(dmabufs, i)
      BY <1>4, Zenon DEF axidma_free, axidma_vma_close
    <2> HIDE DEF MemoryEntry
    <2>2. dmabufs' \in Seq(MemoryEntry(Memory))
      BY <1>1, <2>1, TakenOut, Zenon
    <2>3. QED
      BY <1>1, <1>4, <2>2 DEF MemoryTypes, MemoryEntry
  <1>5. CASE UNCHANGED memoryVars
    BY <1>1, <1>5 DEF MemoryTypes, memoryVars
  <1>6. CASE axidma_remove
    BY <1>1, <1>6 DEF MemoryTypes, axidma_remove
  <1>7. QED
    <2>1. MemoryTypes
      BY <1>1
    <2>2. QED
      BY <2>1, <1>2, <1>3, <1>4, <1>5, <1>6, MemoryMoves DEF memoryVars

\* The ways in which the engine changes
LEMMA EngineMoves ==
  ASSUME Types, LibNext
  PROVE  \/ UNCHANGED engine
         \/ axidma_remove
         \/ \E c \in ChannelId :
              \/ Finish(c) \/ TakeCallback(c) \/ Callback(c)
              \/ /\ engine' = [engine EXCEPT ![c] = Terminated(@)]
                 /\ \E p \in Process : Terminates(p, c) /\ todo'[p] = <<>>
         \/ \E p \in Process : Submit(p) \/ Issue(p)
  <1>1. CASE Life
    BY <1>1, Zenon DEF Life, ProbeStep, ProbeFails
  <1>2. ASSUME NEW p \in Process, ProcessStep(p)
        PROVE  \/ UNCHANGED engine
               \/ \E c \in ChannelId : /\ engine' = [engine EXCEPT ![c] = Terminated(@)]
                                        /\ Terminates(p, c) /\ todo'[p] = <<>>
               \/ Submit(p) \/ Issue(p)
    <2>1. CASE \/ axidma_init_dev(p) \/ Leaves(p, "closed") \/ Leaves(p, "aborted") \/ Called(p)
      BY <2>1, Zenon DEF axidma_init_dev, Leaves, Called, Begin, dmaVars
    <2>2. CASE \E d \in ChannelId : axidma_stop_transfer(p, d)
      <3>1. PICK d \in ChannelId : axidma_stop_transfer(p, d)
        BY <2>2
      <3>2. Terminates(p, d) /\ todo'[p] = <<>>
        BY <3>1 DEF axidma_stop_transfer, StopChannel, Ready, callVars
      <3>3. QED
        BY <3>2, Zenon DEF Terminates
    <2>3. CASE \/ \E a \in Address, m \in Memory : axidma_malloc(p, a, m)
               \/ \E a \in Address : axidma_free(p, a)
               \/ \E a \in Address, x \in Exported : axidma_register_buffer(p, a, x)
      BY <2>3, Zenon DEF axidma_malloc, axidma_mmap, axidma_free, axidma_vma_close,
                         axidma_register_buffer, axidma_get_external
    <2>4. CASE Terminate(p)
      <3>1. todo[p] # <<>> /\ Terminates(p, Head(todo[p]).chan) /\ Return(p)
        BY <2>4, Zenon DEF Terminate, Doing
      <3>2. Head(todo[p]).chan \in ChannelId /\ todo'[p] = <<>>
        BY <3>1, FirstStep, Returned DEF Types
      <3>3. QED
        BY <3>1, <3>2, Zenon DEF Terminates
    <2>5. CASE Step(p)
      BY <2>4, <2>5, Zenon DEF Step, Prep, Submit, PrepareFails, Issue, WaitDone, WaitTimeout
    <2>6. QED
      BY <1>2, <2>1, <2>2, <2>3, <2>5, Zenon DEF ProcessStep
  <1>3. QED
    BY <1>1, <1>2, Steps, Zenon

\* The engine keeps its types.
LEMMA EngineTyped ==
  ASSUME Types, LibNext
  PROVE  EngineTypes'
  <1>1. EngineTypes /\ CallTypes
    BY DEF Types
  <1>2. engine' \in [ChannelId -> EngineEntry]
    <2>1. CASE UNCHANGED engine
      BY <1>1, <2>1 DEF EngineTypes, EngineEntry
    <2>2. CASE axidma_remove
      BY <1>1, <2>2, RemovedEffect, Zenon DEF axidma_remove
    <2>3. CASE \E c \in ChannelId :
                 \/ Finish(c) \/ TakeCallback(c) \/ Callback(c)
                 \/ engine' = [engine EXCEPT ![c] = Terminated(@)]
      BY <1>1, <2>3, FinishEffect, TakeEffect, CallbackEffect, TerminatedEffect, Zenon
    <2>4. CASE \E p \in Process : Submit(p) \/ Issue(p)
      BY <1>1, <2>4, SubmitEffect, IssueEffect, Zenon
    <2>5. QED
      BY <2>1, <2>2, <2>3, <2>4, EngineMoves, Zenon
  <1>3. cb_data' \in [ChannelId -> CallbackRecord]
    <2>1. CASE \E p \in Process : Prep(p)
      <3>1. PICK p \in Process : Prep(p)
        BY <2>1
      <3> DEFINE t == Head(todo[p])
      <3>2. cb_data' = [cb_data EXCEPT ![t.chan] = CallbackData(p, t)]
        BY <3>1, Zenon DEF Prep
      <3>3. CallbackData(p, t) \in CallbackRecord
        BY DEF CallbackData, CallbackRecord
      <3>4. QED
        BY <1>1, <3>2, <3>3 DEF EngineTypes
    <2>2. CASE UNCHANGED cb_data
      BY <1>1, <2>2 DEF EngineTypes
    <2>3. UNCHANGED cb_data \/ \E p \in Process : Prep(p)
      <3>1. CASE Life
        BY <3>1, Zenon DEF Life, ProbeStep, ProbeFails, axidma_remove
      <3>2. CASE \E c \in ChannelId : Finish(c) \/ TakeCallback(c) \/ Callback(c)
        BY <3>2, Zenon DEF Finish, TakeCallback, Callback
      <3>3. ASSUME NEW p \in Process, ProcessStep(p) PROVE UNCHANGED cb_data \/ Prep(p)
        <4>1. CASE \/ axidma_init_dev(p) \/ Leaves(p, "closed") \/ Leaves(p, "aborted") \/ Called(p)
                   \/ \E d \in ChannelId : axidma_stop_transfer(p, d)
          BY <4>1, Zenon DEF axidma_init_dev, Leaves, Called, Begin, axidma_stop_transfer,
                             StopChannel, dmaVars
        <4>2. CASE \/ \E a \in Address, m \in Memory : axidma_malloc(p, a, m)
                   \/ \E a \in Address : axidma_free(p, a)
                   \/ \E a \in Address, x \in Exported : axidma_register_buffer(p, a, x)
          BY <4>2, Zenon DEF axidma_malloc, axidma_mmap, axidma_free, axidma_vma_close,
                             axidma_register_buffer, axidma_get_external
        <4>3. CASE Step(p)
          BY <4>3, Zenon DEF Step, Prep, Submit, PrepareFails, Issue, WaitDone, WaitTimeout,
                             Terminate
        <4>4. QED
          BY <3>3, <4>1, <4>2, <4>3, Zenon DEF ProcessStep
      <3>4. QED
        BY <3>1, <3>2, <3>3, Steps, Zenon
    <2>4. QED
      BY <2>1, <2>2, <2>3
  <1>4. QED
    BY <1>2, <1>3 DEF EngineTypes, EngineEntry

\* How the calls and the handles of the processes change
CallMoves(p) ==
  \/ /\ UNCHANGED <<todo, cookie, completed>> /\ todo[p] = <<>>
     /\ \E r \in [stage : {"closed", "ready", "aborted"}, ids : IdLists] :
          /\ lib' = [lib EXCEPT ![p] = r]
          /\ \/ r.stage # "ready"
             \/ r.stage = "ready" /\ r.ids = Categorized /\ driver = "live"
  \/ /\ UNCHANGED <<lib, cookie, completed>>
     /\ driver = "live" /\ lib[p].stage = "ready" /\ todo[p] = <<>>
     /\ OnlyCallOf(p) /\ Program(todo'[p])
  \/ /\ UNCHANGED lib /\ Step(p)
     /\ todo[p] # <<>> /\ OnlyCallOf(p)
     /\ todo'[p] = Tail(todo[p]) \/ todo'[p] = <<>> \/ Failed(p)
     /\ cookie' \in [Process -> Nat] /\ completed' \subseteq Process
LEMMA ProcessMoves ==
  ASSUME Types, NEW p \in Process, ProcessStep(p)
  PROVE  UNCHANGED <<todo, cookie, completed, lib>> \/ CallMoves(p)
  <1>1. EngineTypes /\ CallTypes /\ channels \in Seq(Channel)
    BY DEF Types, DriverTypes
  <1>2. CASE axidma_init_dev(p)
    <2> DEFINE r == [stage |-> "ready", ids |-> Categorized]
    <2>1. Categorized \in IdLists
      BY <1>1, CategorizedIs, FilledCounts DEF Kinds
    <2>2. r \in [stage : {"closed", "ready", "aborted"}, ids : IdLists] /\ r.stage = "ready"
          /\ r.ids = Categorized
      BY <2>1
    <2>3. lib' = [lib EXCEPT ![p] = r] /\ driver = "live" /\ UNCHANGED <<todo, cookie, completed>>
          /\ todo[p] = <<>>
      BY <1>2 DEF axidma_init_dev, dmaVars, callVars
    <2>4. QED
      BY <2>2, <2>3, Zenon DEF CallMoves
  <1>3. ASSUME NEW stage \in {"closed", "aborted"}, Leaves(p, stage) PROVE CallMoves(p)
    <2> DEFINE r == [stage |-> stage, ids |-> NoIds]
    <2>1. NoIds \in IdLists
      BY DEF NoIds, IdLists
    <2>2. r \in [stage : {"closed", "ready", "aborted"}, ids : IdLists] /\ r.stage # "ready"
      BY <2>1
    <2>3. lib' = [lib EXCEPT ![p] = r] /\ UNCHANGED <<todo, cookie, completed>> /\ todo[p] = <<>>
      BY <1>3 DEF Leaves, callVars
    <2>4. QED
      BY <2>2, <2>3, Zenon DEF CallMoves
  <1>4. CASE \/ \E d \in ChannelId : axidma_stop_transfer(p, d)
             \/ \E a \in Address, m \in Memory : axidma_malloc(p, a, m)
             \/ \E a \in Address : axidma_free(p, a)
             \/ \E a \in Address, x \in Exported : axidma_register_buffer(p, a, x)
    BY <1>4 DEF axidma_malloc, axidma_mmap, axidma_free, axidma_vma_close, axidma_stop_transfer,
                axidma_register_buffer, axidma_get_external, StopChannel, callVars
  <1>5. CASE Called(p) /\ UNCHANGED lib
    <2>1. PICK s : Program(s) /\ Opened(p) /\ driver = "live" /\ Begin(p, s)
      BY <1>5 DEF Called
    <2>2. s \in Seq(CallStep)
      BY <2>1, Zenon DEF Program
    <2>3. todo' = [todo EXCEPT ![p] = s] /\ UNCHANGED <<cookie, completed>>
      BY <2>1, Zenon DEF Begin
    <2>4. OnlyCallOf(p) /\ todo'[p] = s
      BY <1>1, <2>2, <2>3, OneCall
    <2>5. QED
      BY <1>5, <2>1, <2>3, <2>4 DEF CallMoves, Opened
  <1>6. CASE Step(p) /\ UNCHANGED lib
    BY <1>1, <1>6, StepMoves, Zenon DEF CallMoves
  <1>7. QED
    BY <1>2, <1>3, <1>4, <1>5, <1>6 DEF ProcessStep

\* Calls and handles keep their types.
LEMMA CallTyped ==
  ASSUME Types, LibNext
  PROVE  CallTypes'
  <1>1. CallTypes
    BY DEF Types
  <1>2. CASE UNCHANGED <<todo, cookie, lib>> /\ completed' \subseteq Process
    BY <1>1, <1>2 DEF CallTypes
  <1>3. ASSUME NEW p \in Process, CallMoves(p) PROVE CallTypes'
    <2>1. CASE /\ UNCHANGED <<todo, cookie, completed>>
               /\ \E r \in [stage : {"closed", "ready", "aborted"}, ids : IdLists] :
                    lib' = [lib EXCEPT ![p] = r]
      BY <1>1, <2>1 DEF CallTypes, IdLists
    <2>2. CASE UNCHANGED <<lib, cookie, completed>> /\ OnlyCallOf(p)
      BY <1>1, <2>2 DEF CallTypes, OnlyCallOf
    <2>3. CASE UNCHANGED lib /\ OnlyCallOf(p) /\ cookie' \in [Process -> Nat] /\ completed' \subseteq Process
      BY <1>1, <2>3 DEF CallTypes, OnlyCallOf
    <2>4. QED
      BY <1>3, <2>1, <2>2, <2>3, Zenon DEF CallMoves
  <1>4. CASE \E c \in ChannelId : (Finish(c) \/ TakeCallback(c) \/ Callback(c)) /\ UNCHANGED lib
    <2>1. UNCHANGED <<todo, cookie>>
      BY <1>4 DEF Finish, TakeCallback, Callback, callVars
    <2>2. completed' \subseteq Process
      BY <1>1, <1>4 DEF Finish, TakeCallback, Callback, callVars, CallTypes
    <2>3. QED
      BY <1>2, <1>4, <2>1, <2>2
  <1>5. CASE Life /\ UNCHANGED lib
    BY <1>1, <1>2, <1>5 DEF Life, ProbeStep, ProbeFails, axidma_remove, callVars, CallTypes
  <1>6. CASE UNCHANGED <<todo, cookie, completed, lib>>
    BY <1>1, <1>2, <1>6 DEF CallTypes
  <1>7. QED
    BY <1>3, <1>4, <1>5, <1>6, ProcessMoves, Steps, Zenon

\* Every step keeps the types, and probe its order.
LEMMA TypesNext ==
  ASSUME Types, Probed, LibNext
  PROVE  Types' /\ Probed'
  <1>1. DriverTypes' /\ Probed'
    <2>1. DriverTypes
      BY DEF Types
    <2>2. CASE Life
      BY <2>1, <2>2, LifeProbed
    <2>3. CASE UNCHANGED driverVars
      BY <2>1, <2>3 DEF driverVars, DriverTypes, Probed, ProbeOrder, CountsChannels, ParsesNodes,
                        Tables, Counts
    <2>4. QED
      BY <2>2, <2>3, Steps, DriverStays, Zenon
  <1>2. QED
    BY <1>1, MemoryTyped, EngineTyped, CallTyped, Zenon DEF Types

\* The types hold at the beginning.
LEMMA TypesInit == LibInit => Types /\ Probed
  <1> SUFFICES ASSUME LibInit PROVE Types /\ Probed
    OBVIOUS
  <1>1. DmaInit /\ lib = [p \in Process |-> Shut]
    BY DEF LibInit
  <1>2. DriverTypes /\ Probed
    BY <1>1, InitProbed
  <1>3. MemoryTypes
    BY <1>1 DEF DmaInit, MemoryTypes
  <1>4. EngineTypes
    BY <1>1 DEF DmaInit, EngineTypes, Idle, CallbackRecord
  <1>5. CallTypes
    BY <1>1 DEF DmaInit, CallTypes, Shut, NoIds
  <1>6. QED
    BY <1>2, <1>3, <1>4, <1>5 DEF Types

--------------------------------------------------------------------------------
(* the queues of the engine                                                    *)

\* Descriptors are in the order of their cookies: those that are done, then those that
\* are issued, then those that are only submitted; the last cookie tells the first two
\* apart.
Ordered(e) ==
  /\ e.last <= e.used
  /\ \A i \in DOMAIN e.queue :
       /\ e.queue[i].cookie <= e.used
       /\ e.queue[i].state = "done" <=> e.queue[i].cookie <= e.last
  /\ \A i, j \in DOMAIN e.queue : i < j =>
       /\ e.queue[i].cookie < e.queue[j].cookie
       /\ e.queue[i].state = "submitted" => e.queue[j].state = "submitted"
QueuesOrdered == \A c \in ChannelId : Ordered(engine[c])

\* A channel without descriptors is in order.
LEMMA EmptyOrdered ==
  ASSUME NEW e, e.queue = <<>>, e.last <= e.used
  PROVE  Ordered(e)
  BY DEF Ordered

\* Issuing changes nothing but the states.
LEMMA StartedIs ==
  ASSUME EngineTypes, CallTypes, NEW c \in ChannelId
  PROVE  LET q == engine[c].queue
             r == Started(q) IN
           /\ DOMAIN r = DOMAIN q
           /\ \A i \in DOMAIN q :
                /\ r[i].cookie = q[i].cookie /\ r[i].owner = q[i].owner /\ r[i].mem = q[i].mem
                /\ r[i].wait = q[i].wait
                /\ r[i].state # "submitted"
                /\ r[i].state = "done" <=> q[i].state = "done"
  <1> DEFINE q == engine[c].queue
             r == Started(q)
  <1>1. q \in Seq(Descriptor) /\ \A i \in DOMAIN q : q[i] \in Descriptor
    BY Fields, ElementIn, Zenon
  <1>2. \A d \in Descriptor : LET e == [d EXCEPT !.state = "issued"] IN
          /\ e.cookie = d.cookie /\ e.owner = d.owner /\ e.mem = d.mem /\ e.wait = d.wait
          /\ e.state = "issued"
    BY DEF Descriptor
  <1>3. DOMAIN r = DOMAIN q /\ \A i \in DOMAIN q :
          r[i] = IF q[i].state = "submitted" THEN [q[i] EXCEPT !.state = "issued"] ELSE q[i]
    BY DEF Started
  <1> HIDE DEF q, r
  <1>4. ASSUME NEW i \in DOMAIN q
        PROVE  /\ r[i].cookie = q[i].cookie /\ r[i].owner = q[i].owner /\ r[i].mem = q[i].mem
               /\ r[i].wait = q[i].wait
               /\ r[i].state # "submitted"
               /\ r[i].state = "done" <=> q[i].state = "done"
    <2>1. CASE q[i].state = "submitted"
      <3>1. r[i] = [q[i] EXCEPT !.state = "issued"] /\ q[i] \in Descriptor
        BY <1>1, <1>3, <2>1
      <3>2. QED
        BY <1>2, <2>1, <3>1
    <2>2. CASE q[i].state # "submitted"
      BY <1>3, <2>2
    <2>3. QED
      BY <2>1, <2>2
  <1>5. QED
    BY <1>3, <1>4, Zenon DEF q, r

\* Every step keeps the order.
LEMMA OrderNext ==
  ASSUME Types, QueuesOrdered, LibNext
  PROVE  QueuesOrdered'
  <1>1. EngineTypes /\ CallTypes
    BY DEF Types
  <1>2. \A c \in ChannelId : Ordered(engine[c])
    BY DEF QueuesOrdered
  <1>3. ASSUME NEW c \in ChannelId, \A d \in ChannelId : d # c => engine'[d] = engine[d],
               Ordered(engine'[c])
        PROVE  QueuesOrdered'
    <2>1. ASSUME NEW d \in ChannelId PROVE Ordered(engine'[d])
      BY <1>2, <1>3
    <2>2. QED
      BY <2>1 DEF QueuesOrdered
  <1>4. CASE UNCHANGED engine
    BY <1>2, <1>4 DEF QueuesOrdered
  <1>5. CASE axidma_remove
    <2>1. engine' = [c \in ChannelId |-> Terminated(engine[c])]
      BY <1>5 DEF axidma_remove
    <2>2. \A c \in ChannelId : engine'[c].queue = <<>> /\ engine'[c].last <= engine'[c].used
      <3>1. \A c \in ChannelId : engine[c].last <= engine[c].used
        BY <1>2, Zenon DEF Ordered
      <3>2. QED
        BY <1>1, <2>1, <3>1, RemovedEffect
    <2>3. QED
      BY <2>2, EmptyOrdered DEF QueuesOrdered
  <1>6. ASSUME NEW c \in ChannelId, engine' = [engine EXCEPT ![c] = Terminated(@)]
        PROVE  QueuesOrdered'
    <2>1. engine[c].last <= engine[c].used
      BY <1>2, Zenon DEF Ordered
    <2>2. engine'[c].queue = <<>> /\ engine'[c].last <= engine'[c].used
          /\ \A d \in ChannelId : d # c => engine'[d] = engine[d]
      BY <1>1, <1>6, <2>1, TerminatedEffect
    <2>3. QED
      BY <1>3, <2>2, EmptyOrdered
  <1>7. ASSUME NEW c \in ChannelId, Callback(c) PROVE QueuesOrdered'
    <2>1. /\ engine'[c].queue = engine[c].queue
          /\ engine'[c].last = engine[c].last /\ engine'[c].used = engine[c].used
          /\ \A d \in ChannelId : d # c => engine'[d] = engine[d]
      BY <1>1, <1>7, CallbackEffect
    <2>2. QED
      BY <1>2, <1>3, <2>1 DEF Ordered
  <1>8. ASSUME NEW c \in ChannelId, TakeCallback(c) PROVE QueuesOrdered'
    <2> DEFINE q == engine[c].queue
               r == engine'[c].queue
    <2>1. /\ q # <<>> /\ r = Tail(q)
          /\ engine'[c].last = engine[c].last /\ engine'[c].used = engine[c].used
          /\ \A d \in ChannelId : d # c => engine'[d] = engine[d]
      BY <1>1, <1>8, TakeEffect
    <2>2. q \in Seq(Descriptor)
      BY <1>1, Fields
    <2>3. \A i \in DOMAIN r : i \in Nat /\ i + 1 \in DOMAIN q /\ r[i] = q[i + 1]
      BY <2>1, <2>2
    <2> HIDE DEF q, r
    <2>4. Ordered(engine[c])
      BY <1>2
    <2>5. Ordered(engine'[c])
      BY <2>1, <2>3, <2>4 DEF Ordered, q, r
    <2>6. QED
      BY <1>3, <2>1, <2>5
  <1>9. ASSUME NEW c \in ChannelId, Finish(c) PROVE QueuesOrdered'
    <2> DEFINE q == engine[c].queue
               r == engine'[c].queue
    <2>1. PICK i \in DOMAIN q :
            /\ q[i].state = "issued" /\ \A j \in DOMAIN q : q[j].state = "issued" => i <= j
            /\ r = [q EXCEPT ![i] = [@ EXCEPT !.state = "done"]]
            /\ engine'[c].last = q[i].cookie /\ engine'[c].used = engine[c].used
            /\ \A d \in ChannelId : d # c => engine'[d] = engine[d]
      BY <1>1, <1>9, FinishEffect, Zenon
    <2>2. q \in Seq(Descriptor) /\ DOMAIN q = 1 .. Len(q) /\ Len(q) \in Nat
      BY <1>1, Fields
    <2>3. /\ q[i] \in Descriptor
          /\ \A j \in DOMAIN q : q[j].cookie \in Nat /\ q[j].state \in {"submitted", "issued", "done"}
      BY <1>1, <2>2, ElementIn, Fields, Zenon
    <2>4. /\ DOMAIN r = DOMAIN q /\ r[i].state = "done" /\ r[i].cookie = q[i].cookie
          /\ \A j \in DOMAIN q : j # i => r[j] = q[j]
      BY <2>1, <2>2, <2>3 DEF Descriptor
    <2>5. /\ engine[c].last \in Nat /\ engine[c].used \in Nat
      BY <1>1, Fields
    <2> HIDE DEF q, r
    <2>6. Ordered(engine[c])
      BY <1>2
    <2>7. /\ engine[c].last <= engine[c].used
          /\ \A j \in DOMAIN q : /\ q[j].cookie <= engine[c].used
                                 /\ q[j].state = "done" <=> q[j].cookie <= engine[c].last
          /\ \A j, k \in DOMAIN q : j < k => /\ q[j].cookie < q[k].cookie
                                             /\ q[j].state = "submitted" => q[k].state = "submitted"
      BY <2>6 DEF Ordered, q
    <2>8. \A j \in DOMAIN q : q[j].state = "done" => j < i
      BY <2>1, <2>2, <2>3, <2>5, <2>7
    <2>9. \A j \in DOMAIN q : j < i => q[j].state = "done"
      BY <2>1, <2>2, <2>3, <2>7
    <2>10. \A j \in DOMAIN r : /\ r[j].cookie <= engine'[c].used
                               /\ r[j].state = "done" <=> r[j].cookie <= engine'[c].last
      BY <2>1, <2>2, <2>3, <2>4, <2>5, <2>7, <2>8, <2>9, SMTT(30)
    <2>11. \A j, k \in DOMAIN r : j < k => /\ r[j].cookie < r[k].cookie
                                           /\ r[j].state = "submitted" => r[k].state = "submitted"
      BY <2>1, <2>2, <2>3, <2>4, <2>7, <2>9
    <2>12. engine'[c].last <= engine'[c].used
      BY <2>1, <2>7
    <2>13. Ordered(engine'[c])
      BY <2>10, <2>11, <2>12, Zenon DEF Ordered, r
    <2>14. QED
      BY <1>3, <2>1, <2>13
  <1>10. ASSUME NEW p \in Process, Submit(p) PROVE QueuesOrdered'
    <2> DEFINE c == Head(todo[p]).chan
               q == engine[c].queue
               r == engine'[c].queue
               d == [owner |-> p, mem |-> Head(todo[p]).mem, cookie |-> engine[c].used + 1,
                     wait |-> Head(todo[p]).wait, state |-> "submitted"]
    <2>1. c \in ChannelId
      BY <1>1, <1>10, FirstStep DEF Submit, Doing
    <2>2. /\ r = Append(q, d) /\ engine'[c].last = engine[c].last
          /\ engine'[c].used = engine[c].used + 1
          /\ \A x \in ChannelId : x # c => engine'[x] = engine[x]
          /\ d \in Descriptor
      BY <1>1, <1>10, SubmitEffect, Zenon
    <2>3. d.cookie = engine[c].used + 1 /\ d.state = "submitted"
      OBVIOUS
    <2> HIDE DEF c, d
    <2>4. q \in Seq(Descriptor) /\ Len(q) \in Nat /\ DOMAIN q = 1 .. Len(q)
          /\ engine[c].last \in Nat /\ engine[c].used \in Nat
          /\ \A i \in DOMAIN q : q[i].cookie \in Nat
      BY <1>1, <2>1, Fields
    <2>5. /\ DOMAIN r = 1 .. Len(q) + 1 /\ r[Len(q) + 1] = d
          /\ \A i \in 1 .. Len(q) : r[i] = q[i]
      BY <2>2, <2>4, AppendProperties
    <2> HIDE DEF q, r
    <2>6. Ordered(engine[c])
      BY <1>2, <2>1
    <2> DEFINE n == Len(q)
               x == engine[c].last
               y == engine[c].used
    <2>7. /\ x <= y
          /\ \A i \in 1 .. n : q[i].cookie <= y /\ (q[i].state = "done" <=> q[i].cookie <= x)
          /\ \A i, j \in 1 .. n : i < j => /\ q[i].cookie < q[j].cookie
                                           /\ q[i].state = "submitted" => q[j].state = "submitted"
      BY <2>4, <2>6 DEF Ordered, q
    <2>8. n \in Nat /\ x \in Nat /\ y \in Nat /\ \A i \in 1 .. n : q[i].cookie \in Nat
      BY <2>4
    <2> HIDE DEF n, x, y
    <2>9. DOMAIN r = 1 .. n + 1 /\ r[n + 1] = d /\ \A i \in 1 .. n : r[i] = q[i]
      BY <2>5 DEF n
    <2>10. d.cookie = y + 1 /\ d.state = "submitted"
      BY <2>3 DEF y
    <2>11. x <= y + 1
      BY <2>7, <2>8
    <2>12. \A i \in 1 .. n + 1 : r[i].cookie <= y + 1 /\ (r[i].state = "done" <=> r[i].cookie <= x)
      BY <2>7, <2>8, <2>9, <2>10
    <2>13. \A i, j \in 1 .. n + 1 : i < j => /\ r[i].cookie < r[j].cookie
                                             /\ r[i].state = "submitted" => r[j].state = "submitted"
      BY <2>7, <2>8, <2>9, <2>10
    <2>14. engine'[c].used = y + 1 /\ engine'[c].last = x
      BY <2>2 DEF y, x
    <2>15. \A i \in DOMAIN r : /\ r[i].cookie <= engine'[c].used
                               /\ r[i].state = "done" <=> r[i].cookie <= engine'[c].last
      BY <2>9, <2>12, <2>14, Zenon
    <2>16. \A i, j \in DOMAIN r : i < j => /\ r[i].cookie < r[j].cookie
                                           /\ r[i].state = "submitted" => r[j].state = "submitted"
      BY <2>9, <2>13, Zenon
    <2>17. engine'[c].last <= engine'[c].used
      BY <2>11, <2>14, Zenon
    <2>18. Ordered(engine'[c])
      BY <2>15, <2>16, <2>17, Zenon DEF Ordered, r
    <2>19. QED
      BY <1>3, <2>1, <2>2, <2>18
  <1>11. ASSUME NEW p \in Process, Issue(p) PROVE QueuesOrdered'
    <2> DEFINE c == Head(todo[p]).chan
               q == engine[c].queue
               r == engine'[c].queue
    <2>1. c \in ChannelId
      BY <1>1, <1>11, FirstStep DEF Issue, Doing
    <2>2. /\ r = Started(q) /\ engine'[c].last = engine[c].last /\ engine'[c].used = engine[c].used
          /\ \A x \in ChannelId : x # c => engine'[x] = engine[x]
      BY <1>1, <1>11, IssueEffect, Zenon
    <2> HIDE DEF c
    <2>3. /\ DOMAIN r = DOMAIN q
          /\ \A i \in DOMAIN q :
               /\ r[i].cookie = q[i].cookie /\ r[i].state # "submitted"
               /\ r[i].state = "done" <=> q[i].state = "done"
      BY <1>1, <2>1, <2>2, StartedIs
    <2> HIDE DEF q, r
    <2>4. Ordered(engine[c])
      BY <1>2, <2>1
    <2>5. Ordered(engine'[c])
      BY <2>2, <2>3, <2>4 DEF Ordered, q, r
    <2>6. QED
      BY <1>3, <2>1, <2>2, <2>5
  <1>12. QED
    BY <1>4, <1>5, <1>6, <1>7, <1>8, <1>9, <1>10, <1>11, EngineMoves, Zenon

--------------------------------------------------------------------------------
(* calls and handles                                                           *)

\* Calls keep their shape and are made through an open handle, of a device that is
\* there and whose channels the handle knows.
Calling ==
  /\ \A p \in Process : CallShape(todo[p])
  /\ \A p \in Process : todo[p] # <<>> => lib[p].stage = "ready"
  /\ \A p \in Process : lib[p].stage = "ready" => driver = "live" /\ lib[p].ids = Categorized

\* The rest of a call has the shape of a call.
LEMMA TailShape ==
  ASSUME EngineTypes, CallTypes, NEW p \in Process, todo[p] # <<>>, CallShape(todo[p])
  PROVE  CallShape(Tail(todo[p]))
  <1> DEFINE s == todo[p]
             t == Tail(todo[p])
             n == Len(s)
  <1>1. /\ t \in Seq(CallStep) /\ Len(t) = n - 1 /\ DOMAIN t = 1 .. (n - 1)
        /\ n \in Nat /\ n > 0 /\ DOMAIN s = 1 .. n
        /\ \A i \in 1 .. (n - 1) : i + 1 \in 1 .. n /\ t[i] = s[i + 1]
    BY FirstStep
  <1>2. n <= 7 /\ \A i \in 1 .. n : StepShape(s, i)
    BY <1>1 DEF CallShape
  <1>3. Last(s) = s[n] /\ Last(t) = t[n - 1]
    BY <1>1 DEF Last
  <1>4. n - 1 > 0 => Last(t) = Last(s)
    <2>1. n - 1 > 0 => n - 1 \in 1 .. (n - 1) /\ (n - 1) + 1 = n
      BY <1>1
    <2>2. QED
      BY <1>1, <1>3, <2>1
  <1> HIDE DEF s, t, n
  <1>5. ASSUME NEW i \in 1 .. (n - 1) PROVE StepShape(t, i)
    <2>1. /\ i + 1 \in 1 .. n /\ t[i] = s[i + 1] /\ StepShape(s, i + 1) /\ Last(t) = Last(s)
          /\ i \in Nat /\ i <= n - 1
      BY <1>1, <1>2, <1>4
    <2>2. i < n - 1 => t[i + 1] = s[(i + 1) + 1]
      BY <1>1, <2>1
    <2>3. Last(s).op = "wait" /\ t[i].op # "wait" => i < n - 1
      <3>1. i = n - 1 => t[i] = Last(s)
        BY <1>1, <1>3, <2>1 DEF s
      <3>2. QED
        BY <1>1, <2>1, <3>1
    <2>4. /\ t[i].op = "wait" => i = Len(t)
          /\ t[i].op = "terminate" => Len(t) = 1
          /\ t[i].op \in {"prep", "submit"} => i < Len(t)
          /\ t[i].op = "prep" =>
               t[i + 1].op = "submit" /\ t[i + 1].chan = t[i].chan /\ t[i + 1].wait = t[i].wait
          /\ t[i].op # "prep" /\ i < Len(t) => t[i + 1].op # "submit"
      BY <1>1, <2>1, <2>2 DEF StepShape, s, n
    <2>5. t[i].op = "submit" /\ t[i].wait =>
            /\ Last(t).op = "wait" /\ Last(t).chan = t[i].chan
            /\ \A j \in DOMAIN t : j > i => t[j].op \notin {"prep", "submit"}
      <3> SUFFICES ASSUME t[i].op = "submit", t[i].wait
                   PROVE  /\ Last(t).op = "wait" /\ Last(t).chan = t[i].chan
                          /\ \A j \in DOMAIN t : j > i => t[j].op \notin {"prep", "submit"}
        OBVIOUS
      <3>1. /\ Last(s).op = "wait" /\ Last(s).chan = s[i + 1].chan
            /\ \A j \in DOMAIN s : j > i + 1 => s[j].op \notin {"prep", "submit"}
        BY <2>1 DEF StepShape
      <3>2. ASSUME NEW j \in DOMAIN t, j > i PROVE t[j].op \notin {"prep", "submit"}
        <4>1. j + 1 \in DOMAIN s /\ j + 1 > i + 1 /\ t[j] = s[j + 1]
          BY <1>1, <2>1, <3>2
        <4>2. QED
          BY <3>1, <4>1
      <3>3. QED
        BY <2>1, <3>1, <3>2
    <2>6. t[i].op = "submit" /\ ~t[i].wait /\ Last(t).op = "wait" =>
            \E j \in DOMAIN t : j > i /\ t[j].op = "submit"
      <3> SUFFICES ASSUME t[i].op = "submit", ~t[i].wait, Last(t).op = "wait"
                   PROVE  \E j \in DOMAIN t : j > i /\ t[j].op = "submit"
        OBVIOUS
      <3>1. PICK k \in DOMAIN s : k > i + 1 /\ s[k].op = "submit"
        BY <2>1 DEF StepShape
      <3>2. k - 1 \in 1 .. (n - 1) /\ (k - 1) + 1 = k /\ k - 1 > i
        BY <1>1, <2>1, <3>1
      <3>3. k - 1 \in DOMAIN t /\ t[k - 1] = s[k]
        BY <1>1, <3>2
      <3>4. QED
        BY <3>1, <3>2, <3>3
    <2>7. t[i].op = "issue" /\ Last(t).op = "wait" /\ t[i].chan = Last(t).chan =>
            t[i + 1].chan = Last(t).chan
      <3>1. t[i].op = "issue" /\ Last(t).op = "wait" /\ t[i].chan = Last(t).chan =>
              s[(i + 1) + 1].chan = Last(s).chan
        BY <2>1 DEF StepShape
      <3>2. QED
        BY <2>1, <2>2, <2>3, <3>1
    <2>8. QED
      BY <2>4, <2>5, <2>6, <2>7, Zenon DEF StepShape
  <1>6. Len(t) <= 7
    BY <1>1, <1>2
  <1>7. QED
    BY <1>1, <1>5, <1>6 DEF CallShape, t, n

\* A step left over after a failure has that shape too, and so has nothing.
LEMMA FailedShape ==
  ASSUME NEW s \in Seq(CallStep), Len(s) = 1, s[1].op = "terminate"
  PROVE  CallShape(s)
  <1>1. DOMAIN s = 1 .. 1 /\ \A i \in 1 .. 1 : i = 1
    OBVIOUS
  <1>2. StepShape(s, 1)
    BY DEF StepShape
  <1>3. QED
    BY <1>1, <1>2 DEF CallShape

\* Every step keeps that.
LEMMA CallingNext ==
  ASSUME Types, Calling, LibNext
  PROVE  Calling'
  <1>1. EngineTypes /\ CallTypes /\ CallTypes'
    BY CallTyped DEF Types
  <1>2. CASE UNCHANGED <<todo, lib, driver, channels>>
    <2>1. todo' = todo /\ lib' = lib /\ driver' = driver /\ Categorized' = Categorized
      BY <1>2 DEF Categorized
    <2>2. QED
      BY <2>1, Zenon DEF Calling
  <1>3. CASE Life /\ UNCHANGED lib
    <2>1. todo' = todo /\ (driver # "live" \/ \A p \in Process : lib[p].stage # "ready")
      BY <1>3 DEF Life, ProbeStep, ProbeFails, axidma_remove, callVars
    <2>2. \A p \in Process : lib'[p].stage # "ready"
      BY <1>3, <2>1 DEF Calling
    <2>3. QED
      BY <1>3, <2>1, <2>2 DEF Calling
  <1>4. ASSUME NEW p \in Process, CallMoves(p), UNCHANGED driverVars PROVE Calling'
    <2>1. driver' = driver /\ Categorized' = Categorized
      BY <1>4 DEF driverVars, Categorized
    <2>2. CASE UNCHANGED todo /\ todo[p] = <<>>
                 /\ \E r \in [stage : {"closed", "ready", "aborted"}, ids : IdLists] :
                      /\ lib' = [lib EXCEPT ![p] = r]
                      /\ \/ r.stage # "ready"
                         \/ r.stage = "ready" /\ r.ids = Categorized /\ driver = "live"
      <3>1. PICK r : /\ lib' = [lib EXCEPT ![p] = r]
                     /\ r.stage = "ready" => r.ids = Categorized /\ driver = "live"
        BY <2>2
      <3>2. lib'[p] = r /\ \A q \in Process : q # p => lib'[q] = lib[q]
        BY <1>1, <3>1 DEF CallTypes
      <3>3. ASSUME NEW q \in Process
            PROVE  /\ CallShape(todo'[q])
                   /\ todo'[q] # <<>> => lib'[q].stage = "ready"
                   /\ lib'[q].stage = "ready" => driver' = "live" /\ lib'[q].ids = Categorized'
        BY <2>1, <2>2, <3>1, <3>2 DEF Calling
      <3>4. QED
        BY <3>3, Zenon DEF Calling
    <2>3. ASSUME UNCHANGED lib, lib[p].stage = "ready", OnlyCallOf(p), CallShape(todo'[p])
          PROVE  Calling'
      <3>1. ASSUME NEW q \in Process PROVE CallShape(todo'[q]) /\ (todo'[q] # <<>> => lib[q].stage = "ready")
        BY <2>3 DEF Calling, OnlyCallOf
      <3>2. QED
        BY <2>1, <2>3, <3>1 DEF Calling
    <2>4. CASE lib[p].stage = "ready" /\ UNCHANGED lib /\ OnlyCallOf(p) /\ Program(todo'[p])
      BY <2>3, <2>4, Zenon DEF Program
    <2>5. CASE /\ UNCHANGED lib /\ todo[p] # <<>> /\ OnlyCallOf(p)
               /\ todo'[p] = Tail(todo[p]) \/ todo'[p] = <<>> \/ Failed(p)
      <3>1. lib[p].stage = "ready" /\ CallShape(todo[p])
        BY <2>5 DEF Calling
      <3>2. CASE todo'[p] = Tail(todo[p])
        BY <1>1, <2>3, <2>5, <3>1, <3>2, TailShape
      <3>3. CASE todo'[p] = <<>>
        BY <2>3, <2>5, <3>1, <3>3, EmptyProgram, Zenon DEF Program
      <3>4. CASE Failed(p)
        <4>1. todo'[p] \in Seq(CallStep) /\ Len(todo'[p]) = 1 /\ todo'[p][1].op = "terminate"
          BY <2>5, <3>4 DEF OnlyCallOf, Failed
        <4>2. CallShape(todo'[p])
          BY <4>1, FailedShape
        <4>3. QED
          BY <2>3, <2>5, <3>1, <4>2
      <3>5. QED
        BY <2>5, <3>2, <3>3, <3>4
    <2>6. QED
      BY <1>4, <2>2, <2>4, <2>5, Zenon DEF CallMoves
  <1>5. CASE \E c \in ChannelId : (Finish(c) \/ TakeCallback(c) \/ Callback(c)) /\ UNCHANGED lib
    BY <1>2, <1>5 DEF Finish, TakeCallback, Callback, callVars, driverVars
  <1>6. ASSUME NEW p \in Process, ProcessStep(p) PROVE Calling'
    <2>1. UNCHANGED driverVars
      BY <1>6, DriverStays
    <2>2. CASE UNCHANGED <<todo, cookie, completed, lib>>
      BY <1>2, <2>1, <2>2 DEF driverVars
    <2>3. QED
      BY <1>4, <1>6, <2>1, <2>2, ProcessMoves, Zenon
  <1>7. QED
    BY <1>3, <1>5, <1>6, Steps, Zenon

--------------------------------------------------------------------------------
(* types, cookies and the channel table                                        *)

Base == Types /\ Probed /\ QueuesOrdered /\ Calling

\* The invariant of the device and of the calls
LEMMA BaseInvariant == LibSpec => []Base
  <1>1. LibInit => Base
    <2> SUFFICES ASSUME LibInit PROVE Base
      OBVIOUS
    <2>1. Types /\ Probed
      BY TypesInit
    <2>2. DmaInit /\ lib = [p \in Process |-> Shut]
      BY DEF LibInit
    <2>3. QueuesOrdered
      BY <2>2 DEF DmaInit, Idle, QueuesOrdered, Ordered
    <2>4. \A p \in Process : todo[p] = <<>> /\ lib[p].stage # "ready"
      BY <2>2 DEF DmaInit, Shut
    <2>5. Calling
      BY <2>4, EmptyProgram DEF Calling, Program
    <2>6. QED
      BY <2>1, <2>3, <2>5 DEF Base
  <1>2. Base /\ [LibNext]_libVars => Base'
    <2> SUFFICES ASSUME Base, [LibNext]_libVars PROVE Base'
      OBVIOUS
    <2>1. CASE LibNext
      BY <2>1, TypesNext, OrderNext, CallingNext, Zenon DEF Base
    <2>2. CASE UNCHANGED libVars
      <3>1. UNCHANGED <<driver, held, leaked, tree, channels, counts, cb_data, dmabufs, externals,
                        engine, todo, cookie, completed, lib>>
        BY <2>2 DEF libVars, dmaVars, driverVars, memoryVars, callVars
      <3>2. Types'
        BY <3>1 DEF Base, Types, DriverTypes, MemoryTypes, EngineTypes, CallTypes
      <3>3. Probed'
        BY <3>1 DEF Base, Probed, ProbeOrder, CountsChannels, ParsesNodes, Tables, Counts
      <3>4. QueuesOrdered' /\ Calling'
        <4>1. Categorized' = Categorized
          BY <3>1 DEF Categorized
        <4>2. QED
          BY <3>1, <4>1, Zenon DEF Base, QueuesOrdered, Calling
      <3>5. QED
        BY <3>2, <3>3, <3>4 DEF Base
    <2>3. QED
      BY <2>1, <2>2
  <1>3. QED
    BY <1>1, <1>2, PTL DEF LibSpec

\* Types, and the order of cookies: descriptors of a channel are in the order of their
\* cookies, those that are done first (axidma_of_probe to axidma_chrdev_init, dmaengine).
THEOREM DmaTypesHold == LibSpec => []DmaTypeOK
  <1>1. Base => DmaTypeOK
    <2> SUFFICES ASSUME Base PROVE DmaTypeOK
      OBVIOUS
    <2>1. Types /\ Probed /\ QueuesOrdered /\ Calling
      BY DEF Base
    <2>2. held = SubSeq(ProbeOrder, 1, Len(held))
      <3> DEFINE n == Len(held)
                 t == SubSeq(ProbeOrder, 1, n)
      <3>1. held \in Seq(ProbeSteps) /\ n \in Nat /\ DOMAIN held = 1 .. n
        BY <2>1 DEF Types, DriverTypes
      <3>2. ProbeOrder \in Seq(ProbeSteps) /\ Len(ProbeOrder) \in Nat
        BY ProbeOrderIs
      <3>3. n <= Len(ProbeOrder) /\ \A i \in 1 .. n : held[i] = ProbeOrder[i]
        BY <2>1, <3>1 DEF Probed
      <3>4. /\ t \in Seq(ProbeSteps) /\ Len(t) = n
            /\ \A i \in 1 .. n : t[i] = ProbeOrder[i]
        BY <3>1, <3>2, <3>3
      <3> HIDE DEF t
      <3>5. \A i \in 1 .. n : held[i] = t[i]
        BY <3>3, <3>4
      <3>6. held = t
        BY <3>1, <3>4, <3>5, SeqEqual, Zenon
      <3>7. QED
        BY <3>6 DEF t
    <2>3. \A p \in Process : lib[p].stage \in {"closed", "ready", "aborted"} /\ Len(todo[p]) <= 7
      BY <2>1 DEF Types, CallTypes, Calling, CallShape
    <2>4. ASSUME NEW c \in ChannelId, NEW i \in DOMAIN engine[c].queue
          PROVE  LET q == engine[c].queue IN
                   /\ q[i].state = "done" <=> q[i].cookie <= engine[c].last
                   /\ i > 1 => q[i - 1].cookie < q[i].cookie
      <3>1. engine[c].queue \in Seq(Descriptor) /\ Ordered(engine[c])
        BY <2>1, Fields DEF Types, QueuesOrdered
      <3>2. i > 1 => i - 1 \in DOMAIN engine[c].queue /\ i - 1 < i
        BY <3>1
      <3>3. QED
        BY <3>1, <3>2 DEF Ordered
    <2>5. driver \in {"absent", "probing", "live"} /\ (driver = "live" <=> held = ProbeOrder)
          /\ leaked \subseteq {"channels", "cb_data", "requested"} /\ completed \subseteq Process
      BY <2>1, Zenon DEF Types, DriverTypes, CallTypes, Probed
    <2>6. QED
      BY <2>2, <2>3, <2>4, <2>5, Zenon DEF DmaTypeOK
  <1>2. QED
    BY <1>1, BaseInvariant, PTL

\* The channel table of the driver agrees with the numbers it reports, ids are unique,
\* and the arrays of the library hold every id once and none too many - unless a node
\* without 'compatible' was let through (axidma_parse_compatible_property,
\* categorize_channels).
THEOREM TableIsSound == LibSpec => []TableSound
  <1>1. Base => TableSound
    <2> SUFFICES ASSUME Base, driver = "live" PROVE
          /\ Len(channels) = tree.names
          /\ Cardinality(Ids) = Len(channels)
          /\ \A p \in Process : lib[p].stage = "ready" /\ Complete =>
               /\ \A k \in Kinds : Len(lib[p].ids[k]) = counts[k]
               /\ UNION {Range(lib[p].ids[k]) : k \in Kinds} = Ids
      BY Zenon DEF TableSound
    <2>1. Types /\ Probed /\ Calling /\ tree \in Tree /\ channels \in Seq(Channel)
      BY DEF Base, Types, DriverTypes
    <2>2. CountsChannels(tree) /\ ParsesNodes(tree) /\ channels \in Tables(tree) /\ counts = Counts(tree)
      BY <2>1, ProbeOrderIs DEF Probed
    <2> DEFINE n == Len(channels)
    <2>3. /\ n = Len(tree.dmas) /\ n \in Nat /\ DOMAIN tree.dmas = 1 .. n /\ DOMAIN channels = 1 .. n
          /\ \A i \in 1 .. n :
               /\ channels[i].id = Child(tree.dmas[i]).id
               /\ Child(tree.dmas[i]).compatible \in {channels[i].kind, "absent"}
               /\ channels[i].kind \in Kinds
      BY <2>1, <2>2, TableIs
    <2>4. n = tree.names
      BY <2>2, <2>3 DEF CountsChannels
    <2>5. Cardinality(Ids) = n
      <3> DEFINE f == [i \in 1 .. n |-> channels[i].id]
      <3>1. f \in [1 .. n -> Ids] /\ \A x \in Ids : \E i \in 1 .. n : f[i] = x
        BY <2>3 DEF Ids
      <3>2. \A i, j \in 1 .. n : f[i] = f[j] => i = j
        BY <2>2, <2>3 DEF ParsesNodes
      <3>3. f \in Bijection(1 .. n, Ids)
        BY <3>1, <3>2, Fun_IsBij, Zenon
      <3>4. ExistsBijection(1 .. n, Ids)
        BY <3>3, Zenon DEF ExistsBijection
      <3>5. QED
        BY <2>3, <3>4, FS_CountingElements
    <2>6. ASSUME NEW p \in Process, lib[p].stage = "ready", Complete
          PROVE  /\ \A k \in Kinds : Len(lib[p].ids[k]) = counts[k]
                 /\ UNION {Range(lib[p].ids[k]) : k \in Kinds} = Ids
      <3>1. lib[p].ids = Categorized
        BY <2>1, <2>6 DEF Calling
      <3>2. PICK g : Filled(g, n) /\ Categorized = g[n]
        BY <2>1, CategorizedIs
      <3>3. ASSUME NEW k \in Kinds PROVE Holds(lib[p].ids[k], n, k)
        BY <2>1, <3>1, <3>2, FilledCounts
      <3>4. ASSUME NEW k \in Kinds PROVE Len(lib[p].ids[k]) = counts[k]
        <4>1. OfKind(n, k) = {i \in DOMAIN tree.dmas : Child(tree.dmas[i]).compatible = k}
          <5>1. \A i \in 1 .. n : channels[i].kind = k <=> Child(tree.dmas[i]).compatible = k
            BY <2>3, <2>6 DEF Complete
          <5>2. QED
            BY <2>3, <5>1 DEF OfKind
        <4>2. counts[k] = Cardinality({i \in DOMAIN tree.dmas : Child(tree.dmas[i]).compatible = k})
          BY <2>2 DEF Counts
        <4>3. QED
          BY <3>3, <4>1, <4>2, Zenon DEF Holds
      <3>5. \A k \in Kinds : \A c : c \in Range(lib[p].ids[k]) <=>
              \E i \in OfKind(n, k) : channels[i].id = c
        BY <3>3, Zenon DEF Holds
      <3>6. \A c : c \in UNION {Range(lib[p].ids[k]) : k \in Kinds} <=> c \in Ids
        <4>1. \A k : \A i : i \in OfKind(n, k) <=> i \in 1 .. n /\ channels[i].kind = k
          BY DEF OfKind
        <4>2. \A c : c \in Ids <=> \E i \in 1 .. n : channels[i].id = c
          BY <2>3 DEF Ids
        <4>3. \A c : c \in UNION {Range(lib[p].ids[k]) : k \in Kinds} <=>
                \E k \in Kinds : c \in Range(lib[p].ids[k])
          OBVIOUS
        <4>4. \A i \in 1 .. n : channels[i].kind \in Kinds
          BY <2>3
        <4> HIDE DEF n
        <4>5. ASSUME NEW c, c \in Ids PROVE c \in UNION {Range(lib[p].ids[k]) : k \in Kinds}
          <5>1. PICK i \in 1 .. n : channels[i].id = c
            BY <4>2, <4>5
          <5>2. i \in OfKind(n, channels[i].kind) /\ channels[i].kind \in Kinds
            BY <4>1, <4>4, Zenon
          <5>3. c \in Range(lib[p].ids[channels[i].kind])
            BY <3>5, <5>1, <5>2, Zenon
          <5>4. QED
            BY <4>3, <5>2, <5>3, Zenon
        <4>6. ASSUME NEW c, c \in UNION {Range(lib[p].ids[k]) : k \in Kinds} PROVE c \in Ids
          <5>1. PICK k \in Kinds : c \in Range(lib[p].ids[k])
            BY <4>3, <4>6
          <5>2. PICK i \in OfKind(n, k) : channels[i].id = c
            BY <3>5, <5>1, Zenon
          <5>3. QED
            BY <4>1, <4>2, <5>2, Zenon
        <4>7. QED
          BY <4>5, <4>6, Zenon
      <3>7. QED
        BY <3>4, <3>6
    <2>7. QED
      BY <2>4, <2>5, <2>6
  <1>2. QED
    BY <1>1, BaseInvariant, PTL

--------------------------------------------------------------------------------
(* memory under a transfer                                                     *)

Backed(p, m) == m \in exposed \/ HasMemory(p, m)
MemoryHeld ==
  /\ \A c \in ChannelId : \A i \in DOMAIN engine[c].queue :
       Backed(engine[c].queue[i].owner, engine[c].queue[i].mem)
  /\ \A p \in Process : \A i \in DOMAIN todo[p] : Backed(p, todo[p][i].mem)

\* A descriptor after a step is one from before it, or one that was submitted.
SameDescriptor(d, e) == d.owner = e.owner /\ d.mem = e.mem /\ d.cookie = e.cookie /\ d.wait = e.wait
LEMMA QueueMoves ==
  ASSUME Types, LibNext, NEW c \in ChannelId, NEW i \in DOMAIN engine'[c].queue
  PROVE  LET d == engine'[c].queue[i] IN
           \/ \E j \in DOMAIN engine[c].queue : SameDescriptor(d, engine[c].queue[j])
           \/ \E p \in Process : /\ Submit(p) /\ Head(todo[p]).chan = c
                                 /\ d.owner = p /\ d.mem = Head(todo[p]).mem
  <1> DEFINE q == engine[c].queue
             r == engine'[c].queue
             Old == \E j \in DOMAIN q : SameDescriptor(r[i], q[j])
             New == \E p \in Process : /\ Submit(p) /\ Head(todo[p]).chan = c
                                       /\ r[i].owner = p /\ r[i].mem = Head(todo[p]).mem
  <1>1. EngineTypes /\ CallTypes
    BY DEF Types
  <1>2. q \in Seq(Descriptor) /\ \A j \in DOMAIN q : q[j] \in Descriptor
    BY <1>1, Fields, ElementIn, Zenon
  <1>3. ASSUME engine'[c] = engine[c] \/ r = q PROVE Old
    <2>1. r = q
      BY <1>3
    <2>2. QED
      BY <2>1, Zenon DEF SameDescriptor
  <1>4. ASSUME r = <<>> PROVE Old
    BY <1>4
  <1>5. ASSUME NEW d \in ChannelId, Finish(d) PROVE Old
    <2>1. CASE d # c
      <3>1. engine'[c] = engine[c]
        BY <1>1, <1>5, <2>1, FinishEffect, Zenon
      <3>2. QED
        BY <1>3, <3>1
    <2>2. CASE d = c
      <3>1. PICK k \in DOMAIN q : r = [q EXCEPT ![k] = [@ EXCEPT !.state = "done"]]
        BY <1>1, <1>5, <2>2, FinishEffect, Zenon
      <3>2. \A e \in Descriptor : SameDescriptor([e EXCEPT !.state = "done"], e)
        BY DEF Descriptor, SameDescriptor
      <3>3. i \in DOMAIN q /\ (i # k => r[i] = q[i]) /\ (i = k => r[i] = [q[i] EXCEPT !.state = "done"])
        BY <1>2, <3>1
      <3>4. CASE i = k
        BY <1>2, <3>2, <3>3, <3>4, Zenon
      <3>5. CASE i # k
        BY <3>3, <3>5, Zenon DEF SameDescriptor
      <3>6. QED
        BY <3>4, <3>5
    <2>3. QED
      BY <2>1, <2>2
  <1>6. ASSUME NEW d \in ChannelId, TakeCallback(d) PROVE Old
    <2>1. CASE d # c
      <3>1. engine'[c] = engine[c]
        BY <1>1, <1>6, <2>1, TakeEffect, Zenon
      <3>2. QED
        BY <1>3, <3>1
    <2>2. CASE d = c
      <3>1. q # <<>> /\ r = Tail(q)
        BY <1>1, <1>6, <2>2, TakeEffect, Zenon
      <3>2. i + 1 \in DOMAIN q /\ r[i] = q[i + 1]
        BY <1>2, <3>1
      <3>3. QED
        BY <3>2, Zenon DEF SameDescriptor
    <2>3. QED
      BY <2>1, <2>2
  <1>7. ASSUME NEW d \in ChannelId, Callback(d) PROVE Old
    <2>1. engine'[c] = engine[c] \/ r = q
      BY <1>1, <1>7, CallbackEffect, Zenon
    <2>2. QED
      BY <1>3, <2>1
  <1>8. ASSUME NEW d \in ChannelId, engine' = [engine EXCEPT ![d] = Terminated(@)] PROVE Old
    <2>1. engine'[c] = engine[c] \/ r = <<>>
      BY <1>1, <1>8, TerminatedEffect, Zenon
    <2>2. QED
      BY <1>3, <1>4, <2>1
  <1>9. CASE axidma_remove
    <2>1. r = <<>>
      BY <1>1, <1>9, RemovedEffect DEF axidma_remove
    <2>2. QED
      BY <1>4, <2>1
  <1>10. ASSUME NEW p \in Process, Issue(p) PROVE Old
    <2> DEFINE d == Head(todo[p]).chan
    <2>1. engine'[d].queue = Started(engine[d].queue)
          /\ \A x \in ChannelId : x # d => engine'[x] = engine[x]
      BY <1>1, <1>10, IssueEffect, Zenon
    <2>2. CASE d # c
      <3>1. r = q
        BY <2>1, <2>2
      <3>2. QED
        BY <1>3, <3>1
    <2>3. CASE d = c
      <3>1. r = Started(q)
        BY <2>1, <2>3
      <3>2. DOMAIN r = DOMAIN q /\ SameDescriptor(r[i], q[i])
        BY <1>1, <3>1, StartedIs DEF SameDescriptor
      <3>3. QED
        BY <3>2, Zenon
    <2>4. QED
      BY <2>2, <2>3
  <1>11. ASSUME NEW p \in Process, Submit(p) PROVE Old \/ New
    <2> DEFINE t == Head(todo[p])
               d == t.chan
               e == [owner |-> p, mem |-> t.mem, cookie |-> engine[d].used + 1,
                     wait |-> t.wait, state |-> "submitted"]
    <2>1. engine'[d].queue = Append(engine[d].queue, e) /\ e \in Descriptor
          /\ \A x \in ChannelId : x # d => engine'[x] = engine[x]
      BY <1>1, <1>11, SubmitEffect, Zenon
    <2>2. CASE d # c
      <3>1. r = q
        BY <2>1, <2>2
      <3>2. QED
        BY <1>3, <3>1
    <2>3. CASE d = c
      <3>1. e.owner = p /\ e.mem = t.mem
        OBVIOUS
      <3> HIDE DEF e
      <3>2. r = Append(q, e) /\ e \in Descriptor
        BY <2>1, <2>3
      <3>3. r[i] = e \/ (i \in DOMAIN q /\ r[i] = q[i])
        BY <1>2, <3>2
      <3>4. CASE r[i] = e
        BY <1>11, <2>3, <3>1, <3>4, Zenon
      <3>5. CASE i \in DOMAIN q /\ r[i] = q[i]
        BY <3>5, Zenon DEF SameDescriptor
      <3>6. QED
        BY <3>3, <3>4, <3>5
    <2>4. QED
      BY <2>2, <2>3
  <1>12. CASE UNCHANGED engine
    BY <1>3, <1>12
  <1>13. QED
    BY <1>5, <1>6, <1>7, <1>8, <1>9, <1>10, <1>11, <1>12, EngineMoves, Zenon

\* A step of a call after a step of the system is one from before, or one of a call
\* that begins.
LEMMA CallSteps ==
  ASSUME Types, LibNext, NEW p \in Process, NEW i \in DOMAIN todo'[p]
  PROVE  \/ \E j \in DOMAIN todo[p] : /\ todo[p][j].chan = todo'[p][i].chan
                                      /\ todo[p][j].mem = todo'[p][i].mem
         \/ Program(todo'[p]) /\ Begin(p, todo'[p])
  <1>1. EngineTypes /\ CallTypes
    BY DEF Types
  <1>2. CASE todo'[p] = todo[p]
    BY <1>2, Zenon
  <1>3. ASSUME NEW r \in Process, ProcessStep(r)
        PROVE  \/ todo'[p] = todo[p]
               \/ r = p /\ Program(todo'[p]) /\ Begin(p, todo'[p])
               \/ r = p /\ todo[p] # <<>> /\ todo'[p] = Tail(todo[p])
               \/ r = p /\ todo[p] # <<>> /\ Failed(p) /\ todo' \in [Process -> Seq(CallStep)]
               \/ todo'[p] = <<>>
    <2>1. CASE Step(r)
      <3>1. /\ todo[r] # <<>> /\ OnlyCallOf(r)
            /\ todo'[r] = Tail(todo[r]) \/ todo'[r] = <<>> \/ Failed(r)
        BY <1>1, <2>1, StepMoves
      <3>2. QED
        BY <3>1 DEF OnlyCallOf
    <2>2. CASE Called(r)
      <3>1. PICK s : Program(s) /\ Begin(r, s)
        BY <2>2 DEF Called
      <3>2. todo' = [todo EXCEPT ![r] = s]
        BY <3>1 DEF Begin
      <3>3. (r = p => todo'[p] = s) /\ (r # p => todo'[p] = todo[p])
        BY <1>1, <3>2 DEF CallTypes
      <3>4. QED
        BY <3>1, <3>3, Zenon
    <2>3. CASE UNCHANGED todo
      BY <2>3
    <2>4. Step(r) \/ Called(r) \/ UNCHANGED todo
      BY <1>3 DEF ProcessStep, axidma_init_dev, Leaves, axidma_malloc, axidma_mmap, axidma_free,
                  axidma_vma_close, axidma_register_buffer, axidma_get_external,
                  axidma_stop_transfer, StopChannel, dmaVars, callVars
    <2>5. QED
      BY <2>1, <2>2, <2>3, <2>4
  <1>4. CASE Life \/ \E c \in ChannelId : Finish(c) \/ TakeCallback(c) \/ Callback(c)
    BY <1>2, <1>4 DEF Life, ProbeStep, ProbeFails, axidma_remove, Finish, TakeCallback, Callback,
                      callVars
  <1>5. CASE todo[p] # <<>> /\ todo'[p] = Tail(todo[p])
    BY <1>1, <1>5, FirstStep
  <1>6. CASE todo[p] # <<>> /\ Failed(p) /\ todo' \in [Process -> Seq(CallStep)]
    <2>1. i = 1
      BY <1>6 DEF Failed
    <2>2. 1 \in DOMAIN todo[p] /\ Head(todo[p]) = todo[p][1]
      BY <1>1, <1>6, FirstStep
    <2>3. QED
      BY <1>6, <2>1, <2>2 DEF Failed
  <1>7. CASE todo'[p] = <<>>
    BY <1>7
  <1>8. QED
    BY <1>2, <1>3, <1>4, <1>5, <1>6, <1>7, Steps, Zenon

\* Memory in use that its process holds, or that counts as exposed, is one of the two
\* after every step as well, unless the driver is removed.
LEMMA BackedStays ==
  ASSUME Types, LibNext, ~axidma_remove, NEW p, NEW m, Backed(p, m), InUse(m)
  PROVE  Backed(p, m)'
  <1>1. /\ dmabufs \in Seq(MemoryEntry(Memory)) /\ externals \in Seq(MemoryEntry(Exported))
        /\ MemoryTypes
    BY DEF Types, MemoryTypes, MemoryEntry
  <1>2. \/ m \in exposed
        \/ \E i \in DOMAIN dmabufs : dmabufs[i].mem = m /\ dmabufs[i].owner = p
        \/ \E i \in DOMAIN externals : externals[i].mem = m
    BY Zenon DEF Backed, HasMemory, Owns
  <1>3. ASSUME \/ m \in exposed'
               \/ \E i \in DOMAIN dmabufs' : dmabufs'[i].mem = m /\ dmabufs'[i].owner = p
               \/ \E i \in DOMAIN externals' : externals'[i].mem = m
        PROVE  Backed(p, m)'
    BY <1>3, Zenon DEF Backed, HasMemory, Owns
  <1>4. CASE UNCHANGED memoryVars /\ exposed \subseteq exposed'
    <2>1. dmabufs' = dmabufs /\ externals' = externals
      BY <1>4 DEF memoryVars
    <2>2. QED
      BY <1>2, <1>3, <1>4, <2>1
  <1>5. ASSUME NEW r \in Process, NEW a \in Address, NEW x \in Memory,
               axidma_malloc(r, a, x), UNCHANGED externals
        PROVE  Backed(p, m)'
    <2> DEFINE e == [owner |-> r, addr |-> a, mem |-> x]
    <2>1. /\ dmabufs' = <<e>> \o dmabufs
          /\ exposed' = IF InUse(x) THEN exposed ELSE exposed \ {x}
      BY <1>5, Zenon DEF axidma_malloc, axidma_mmap
    <2>2. e \in MemoryEntry(Memory)
      BY DEF MemoryEntry
    <2> HIDE DEF e
    <2>3. \A i \in DOMAIN dmabufs : i + 1 \in DOMAIN dmabufs' /\ dmabufs'[i + 1] = dmabufs[i]
      <3>1. \A i \in DOMAIN dmabufs : /\ i + 1 \in DOMAIN (<<e>> \o dmabufs)
                                      /\ (<<e>> \o dmabufs)[i + 1] = dmabufs[i]
        BY <1>1, <2>2, PutFirst
      <3>2. QED
        BY <2>1, <3>1
    <2>4. m \in exposed => m \in exposed'
      BY <2>1
    <2>5. QED
      BY <1>2, <1>3, <1>5, <2>3, <2>4
  <1>6. ASSUME NEW r \in Process, NEW a \in Address, NEW x \in Exported,
               axidma_register_buffer(r, a, x), UNCHANGED dmabufs
        PROVE  Backed(p, m)'
    <2> DEFINE e == [owner |-> r, addr |-> a, mem |-> x]
    <2>1. /\ externals' = <<e>> \o externals
          /\ exposed' = IF InUse(x) THEN exposed ELSE exposed \ {x}
      BY <1>6, Zenon DEF axidma_register_buffer, axidma_get_external
    <2>2. e \in MemoryEntry(Exported)
      BY DEF MemoryEntry
    <2> HIDE DEF e
    <2>3. \A i \in DOMAIN externals : i + 1 \in DOMAIN externals' /\ externals'[i + 1] = externals[i]
      <3>1. \A i \in DOMAIN externals : /\ i + 1 \in DOMAIN (<<e>> \o externals)
                                        /\ (<<e>> \o externals)[i + 1] = externals[i]
        BY <1>1, <2>2, PutFirst
      <3>2. QED
        BY <2>1, <3>1
    <2>4. m \in exposed => m \in exposed'
      BY <2>1
    <2>5. QED
      BY <1>2, <1>3, <1>6, <2>3, <2>4
  <1>7. ASSUME NEW r \in Process, NEW a \in Address, axidma_free(r, a), UNCHANGED externals
        PROVE  Backed(p, m)'
    <2>1. PICK k \in DOMAIN dmabufs :
            /\ dmabufs' = RemoveAt(dmabufs, k)
            /\ exposed' = exposed \cup (IF InUse(dmabufs[k].mem) THEN {dmabufs[k].mem} ELSE {})
      BY <1>7, Zenon DEF axidma_free, axidma_vma_close
    <2>2. \A j \in DOMAIN dmabufs : j # k => \E i \in DOMAIN dmabufs' : dmabufs'[i] = dmabufs[j]
      BY <1>1, <2>1, TakenOut, Zenon
    <2>3. m \in exposed \/ dmabufs[k].mem = m => m \in exposed'
      BY <2>1
    <2>4. ASSUME NEW j \in DOMAIN dmabufs, dmabufs[j].mem = m, dmabufs[j].owner = p
          PROVE  Backed(p, m)'
      <3>1. CASE j = k
        BY <1>3, <2>3, <2>4, <3>1
      <3>2. CASE j # k
        BY <1>3, <2>2, <2>4, <3>2, Zenon
      <3>3. QED
        BY <3>1, <3>2
    <2>5. QED
      BY <1>2, <1>3, <1>7, <2>3, <2>4, Zenon
  <1>8. QED
    <2>1. MemoryTypes
      BY <1>1
    <2>2. QED
      BY <2>1, <1>4, <1>5, <1>6, <1>7, MemoryMoves

\* What a call finds at its beginning is memory that its process holds, or that counts
\* as exposed because another process holds it.
LEMMA BegunBacked ==
  ASSUME Types, NEW p \in Process, NEW s, Program(s), Begin(p, s), NEW i \in DOMAIN s
  PROVE  Backed(p, s[i].mem)'
  <1> DEFINE m == s[i].mem
  <1>1. PICK a \in Address : uservirt_to_dma(a) = m /\ m # None
    BY Zenon DEF Program
  <1>2. MemoryTypes
    BY DEF Types
  <1>3. /\ exposed' = exposed \cup {n \in {s[j].mem : j \in DOMAIN s} : \E q \in Process \ {p} : Owns(q, n)}
        /\ dmabufs' = dmabufs /\ externals' = externals
    BY DEF Begin, memoryVars
  <1>4. CASE \E j \in DOMAIN externals : m = externals[j].mem
    BY <1>3, <1>4, Zenon DEF Backed, HasMemory
  <1>5. ASSUME NEW j \in DOMAIN dmabufs, m = dmabufs[j].mem PROVE Backed(p, m)'
    <2>1. dmabufs[j].owner \in Process
      <3>1. \A e \in MemoryEntry(Memory) : e.owner \in Process
        BY DEF MemoryEntry
      <3>2. dmabufs \in Seq(MemoryEntry(Memory))
        BY <1>2 DEF MemoryTypes, MemoryEntry
      <3>3. QED
        BY <3>1, <3>2, ElementIn, Zenon
    <2>2. CASE dmabufs[j].owner = p
      BY <1>3, <1>5, <2>2 DEF Backed, HasMemory, Owns
    <2>3. CASE dmabufs[j].owner # p
      <3>1. Owns(dmabufs[j].owner, m)
        BY <1>5, Zenon DEF Owns
      <3>2. m \in {s[k].mem : k \in DOMAIN s}
        OBVIOUS
      <3>3. m \in exposed'
        BY <1>3, <2>1, <2>3, <3>1, <3>2
      <3>4. QED
        BY <3>3, Zenon DEF Backed
    <2>4. QED
      BY <2>2, <2>3
  <1>6. QED
    BY <1>1, <1>2, <1>4, <1>5, LookUp, Zenon

\* The driver is removed only while no process has the device open.
LEMMA RemovedUnused ==
  ASSUME Types, LibNext, axidma_remove
  PROVE  UNCHANGED lib /\ \A p \in Process : lib[p].stage # "ready"
  <1>1. driver = "live" /\ driver' = "absent"
    BY DEF axidma_remove
  <1>2. ~(UNCHANGED driverVars)
    BY <1>1 DEF driverVars
  <1>3. Life /\ UNCHANGED lib
    BY <1>2, Steps, DriverStays, Zenon
  <1>4. ~ProbeStep /\ ~ProbeFails
    BY <1>1 DEF ProbeStep, ProbeFails
  <1>5. QED
    BY <1>3, <1>4, Zenon DEF Life

\* Every step keeps the memory of descriptors and calls.
LEMMA MemoryNext ==
  ASSUME Types, Calling, MemoryHeld, LibNext
  PROVE  MemoryHeld'
  <1>1. EngineTypes /\ CallTypes /\ EngineTypes' /\ CallTypes'
    BY CallTyped, EngineTyped DEF Types
  <1>2. CASE axidma_remove /\ UNCHANGED lib /\ \A p \in Process : lib[p].stage # "ready"
    <2>1. \A c \in ChannelId : engine'[c].queue = <<>>
      BY <1>1, <1>2, RemovedEffect DEF axidma_remove
    <2>2. \A p \in Process : todo'[p] = <<>>
      BY <1>2 DEF axidma_remove, callVars, Calling
    <2>3. QED
      BY <2>1, <2>2 DEF MemoryHeld
  <1>3. CASE ~axidma_remove
    <2>1. ASSUME NEW c \in ChannelId, NEW i \in DOMAIN engine'[c].queue
          PROVE  Backed(engine[c].queue[i].owner, engine[c].queue[i].mem)'
      <3> DEFINE d == engine'[c].queue[i]
      <3>1. CASE \E j \in DOMAIN engine[c].queue : SameDescriptor(d, engine[c].queue[j])
        <4>1. PICK j \in DOMAIN engine[c].queue : SameDescriptor(d, engine[c].queue[j])
          BY <3>1
        <4>2. d.owner = engine[c].queue[j].owner /\ d.mem = engine[c].queue[j].mem
          BY <4>1 DEF SameDescriptor
        <4>3. Backed(engine[c].queue[j].owner, engine[c].queue[j].mem) /\ InUse(engine[c].queue[j].mem)
          BY Zenon DEF MemoryHeld, InUse
        <4>4. ASSUME NEW p, NEW m, p = engine[c].queue[j].owner, m = engine[c].queue[j].mem,
                     p = d.owner, m = d.mem
              PROVE  Backed(engine[c].queue[i].owner, engine[c].queue[i].mem)'
          <5>1. Backed(p, m) /\ InUse(m)
            BY <4>3, <4>4
          <5>2. Backed(p, m)'
            BY <1>3, <5>1, BackedStays, Zenon
          <5>3. QED
            BY <4>4, <5>2 DEF Backed, HasMemory, Owns
        <4>5. QED
          BY <4>2, <4>4
      <3>2. ASSUME NEW p \in Process, Submit(p), d.owner = p, d.mem = Head(todo[p]).mem
            PROVE  Backed(engine[c].queue[i].owner, engine[c].queue[i].mem)'
        <4>1. todo[p] # <<>>
          BY <3>2, Zenon DEF Submit, Doing
        <4>2. 1 \in DOMAIN todo[p] /\ Head(todo[p]) = todo[p][1]
          BY <1>1, <4>1, FirstStep
        <4>3. PICK m : m = todo[p][1].mem
          OBVIOUS
        <4>4. Backed(p, m) /\ InUse(m)
          BY <4>2, <4>3, Zenon DEF MemoryHeld, InUse
        <4>5. Backed(p, m)'
          BY <1>3, <4>4, BackedStays, Zenon
        <4>6. d.owner = p /\ d.mem = m
          BY <3>2, <4>2, <4>3
        <4>7. QED
          BY <4>5, <4>6 DEF Backed, HasMemory, Owns
      <3>3. \/ \E j \in DOMAIN engine[c].queue : SameDescriptor(d, engine[c].queue[j])
            \/ \E p \in Process : Submit(p) /\ d.owner = p /\ d.mem = Head(todo[p]).mem
        BY QueueMoves
      <3>4. QED
        BY <3>1, <3>2, <3>3
    <2>2. ASSUME NEW p \in Process, NEW i \in DOMAIN todo'[p] PROVE Backed(p, todo[p][i].mem)'
      <3>1. ASSUME NEW j \in DOMAIN todo[p], todo[p][j].mem = todo'[p][i].mem
            PROVE  Backed(p, todo[p][i].mem)'
        <4>1. PICK m : m = todo[p][j].mem
          OBVIOUS
        <4>2. Backed(p, m) /\ InUse(m)
          BY <4>1, Zenon DEF MemoryHeld, InUse
        <4>3. Backed(p, m)'
          BY <1>3, <4>2, BackedStays, Zenon
        <4>4. todo'[p][i].mem = m
          BY <3>1, <4>1
        <4>5. QED
          BY <4>3, <4>4 DEF Backed, HasMemory, Owns
      <3>2. CASE Program(todo'[p]) /\ Begin(p, todo'[p])
        <4>1. PICK s : s = todo'[p]
          OBVIOUS
        <4>2. i \in DOMAIN s /\ Program(s) /\ Begin(p, s)
          BY <3>2, <4>1
        <4>3. Backed(p, s[i].mem)'
          BY <4>2, BegunBacked, Zenon
        <4>4. QED
          BY <4>1, <4>3 DEF Backed, HasMemory, Owns
      <3>3. QED
        BY <3>1, <3>2, CallSteps, Zenon
    <2>3. QED
      BY <2>1, <2>2 DEF MemoryHeld
  <1>4. axidma_remove => UNCHANGED lib /\ \A p \in Process : lib[p].stage # "ready"
    BY RemovedUnused
  <1>5. QED
    BY <1>2, <1>3, <1>4

\* A descriptor that the hardware may still work on refers to memory its process has
\* mapped or registered, until that memory is given back under the transfer or belongs to
\* a process with the same address (axidma_uservirt_to_dma, axidma_vma_close).
THEOREM TransfersOnOwnMemory == LibSpec => []DmaOnOwnMemory
  <1>1. LibInit => MemoryHeld
    <2> SUFFICES ASSUME LibInit PROVE MemoryHeld
      OBVIOUS
    <2>1. /\ \A c \in ChannelId : engine[c].queue = <<>>
          /\ \A p \in Process : todo[p] = <<>>
      BY DEF LibInit, DmaInit, Idle
    <2>2. QED
      BY <2>1 DEF MemoryHeld
  <1>2. Base /\ MemoryHeld /\ [LibNext]_libVars => MemoryHeld'
    <2> SUFFICES ASSUME Base, MemoryHeld, [LibNext]_libVars PROVE MemoryHeld'
      OBVIOUS
    <2>1. CASE LibNext
      BY <2>1, MemoryNext, Zenon DEF Base
    <2>2. CASE UNCHANGED libVars
      <3>1. UNCHANGED <<dmabufs, externals, engine, todo, exposed>>
        BY <2>2 DEF libVars, dmaVars, memoryVars, callVars, historyVars
      <3>2. QED
        BY <3>1 DEF MemoryHeld, Backed, HasMemory, Owns
    <2>3. QED
      BY <2>1, <2>2
  <1>3. MemoryHeld => DmaOnOwnMemory
    BY Zenon DEF MemoryHeld, Backed, DmaOnOwnMemory
  <1>4. QED
    BY <1>1, <1>2, <1>3, BaseInvariant, PTL DEF LibSpec

--------------------------------------------------------------------------------
(* the transfer a call waits for                                               *)

\* A descriptor that is not done stays in its queue, unless the hardware finishes it or
\* the channel is terminated.
LEMMA NotLost ==
  ASSUME Types, LibNext, NEW c \in ChannelId, NEW j \in DOMAIN engine[c].queue,
         engine[c].queue[j].state # "done"
  PROVE  \/ \E i \in DOMAIN engine'[c].queue :
              /\ SameDescriptor(engine'[c].queue[i], engine[c].queue[j])
              /\ engine'[c].queue[i].state # "done"
         \/ engine[c].queue[j].wait => engine[c].queue[j].owner \in finished'
         \/ \E r \in Process : Terminates(r, c) /\ todo'[r] = <<>>
         \/ axidma_remove
  <1> DEFINE q == engine[c].queue
             r == engine'[c].queue
             Kept == \E i \in DOMAIN r : SameDescriptor(r[i], q[j]) /\ r[i].state # "done"
             Finished == q[j].wait => q[j].owner \in finished'
             Dropped == \E p \in Process : Terminates(p, c) /\ todo'[p] = <<>>
  <1>1. EngineTypes /\ CallTypes
    BY DEF Types
  <1>2. q \in Seq(Descriptor) /\ \A i \in DOMAIN q : q[i] \in Descriptor
    BY <1>1, Fields, ElementIn, Zenon
  <1>3. ASSUME engine'[c] = engine[c] \/ r = q PROVE Kept
    <2>1. r = q
      BY <1>3
    <2>2. QED
      BY <2>1, Zenon DEF SameDescriptor
  <1>4. ASSUME NEW d \in ChannelId, Finish(d) PROVE Kept \/ Finished
    <2>1. CASE d # c
      <3>1. engine'[c] = engine[c]
        BY <1>1, <1>4, <2>1, FinishEffect, Zenon
      <3>2. QED
        BY <1>3, <3>1
    <2>2. CASE d = c
      <3>1. PICK k \in DOMAIN q :
              /\ r = [q EXCEPT ![k] = [@ EXCEPT !.state = "done"]]
              /\ finished' = finished \cup (IF q[k].wait THEN {q[k].owner} ELSE {})
        BY <1>1, <1>4, <2>2, FinishEffect, Zenon
      <3>2. CASE k = j
        BY <3>1, <3>2
      <3>3. CASE k # j
        <4>1. j \in DOMAIN r /\ r[j] = q[j]
          BY <1>2, <3>1, <3>3
        <4>2. QED
          BY <4>1, Zenon DEF SameDescriptor
      <3>4. QED
        BY <3>2, <3>3
    <2>3. QED
      BY <2>1, <2>2
  <1>5. ASSUME NEW d \in ChannelId, TakeCallback(d) PROVE Kept
    <2>1. CASE d # c
      <3>1. engine'[c] = engine[c]
        BY <1>1, <1>5, <2>1, TakeEffect, Zenon
      <3>2. QED
        BY <1>3, <3>1
    <2>2. CASE d = c
      <3>1. q # <<>> /\ r = Tail(q) /\ q[1].state = "done"
        BY <1>1, <1>5, <2>2, TakeEffect, Zenon
      <3>2. j # 1
        BY <3>1
      <3>3. /\ Len(q) \in Nat /\ DOMAIN q = 1 .. Len(q)
            /\ r \in Seq(Descriptor) /\ Len(r) = Len(q) - 1
            /\ \A i \in 1 .. Len(r) : r[i] = q[i + 1]
        BY <1>2, <3>1, HeadTailProperties
      <3>4. j \in 1 .. Len(q) /\ DOMAIN r = 1 .. Len(r)
        BY <3>3
      <3>5. j - 1 \in DOMAIN r /\ r[j - 1] = q[j]
        <4>1. j - 1 \in 1 .. Len(r) /\ (j - 1) + 1 = j
          BY <3>2, <3>3, <3>4
        <4>2. QED
          BY <3>3, <3>4, <4>1, Zenon
      <3>6. QED
        BY <3>5, Zenon DEF SameDescriptor
    <2>3. QED
      BY <2>1, <2>2
  <1>6. ASSUME NEW d \in ChannelId, Callback(d) PROVE Kept
    <2>1. engine'[c] = engine[c] \/ r = q
      BY <1>1, <1>6, CallbackEffect, Zenon
    <2>2. QED
      BY <1>3, <2>1
  <1>7. ASSUME NEW d \in ChannelId, engine' = [engine EXCEPT ![d] = Terminated(@)],
               \E p \in Process : Terminates(p, d) /\ todo'[p] = <<>>
        PROVE  Kept \/ Dropped
    <2>1. CASE d # c
      <3>1. engine'[c] = engine[c]
        BY <1>1, <1>7, <2>1, TerminatedEffect, Zenon
      <3>2. QED
        BY <1>3, <3>1
    <2>2. CASE d = c
      BY <1>7, <2>2
    <2>3. QED
      BY <2>1, <2>2
  <1>8. ASSUME NEW p \in Process, Issue(p) PROVE Kept
    <2> DEFINE d == Head(todo[p]).chan
    <2>1. engine'[d].queue = Started(engine[d].queue)
          /\ \A x \in ChannelId : x # d => engine'[x] = engine[x]
      BY <1>1, <1>8, IssueEffect, Zenon
    <2>2. CASE d # c
      <3>1. engine'[c] = engine[c]
        BY <2>1, <2>2
      <3>2. QED
        BY <1>3, <3>1
    <2>3. CASE d = c
      <3>1. r = Started(q)
        BY <2>1, <2>3
      <3>2. j \in DOMAIN r /\ SameDescriptor(r[j], q[j]) /\ r[j].state # "done"
        BY <1>1, <3>1, StartedIs DEF SameDescriptor
      <3>3. QED
        BY <3>2, Zenon
    <2>4. QED
      BY <2>2, <2>3
  <1>9. ASSUME NEW p \in Process, Submit(p) PROVE Kept
    <2> DEFINE t == Head(todo[p])
               d == t.chan
               e == [owner |-> p, mem |-> t.mem, cookie |-> engine[d].used + 1,
                     wait |-> t.wait, state |-> "submitted"]
    <2>1. engine'[d].queue = Append(engine[d].queue, e) /\ e \in Descriptor
          /\ \A x \in ChannelId : x # d => engine'[x] = engine[x]
      BY <1>1, <1>9, SubmitEffect, Zenon
    <2>2. CASE d # c
      <3>1. engine'[c] = engine[c]
        BY <2>1, <2>2
      <3>2. QED
        BY <1>3, <3>1
    <2>3. CASE d = c
      <3> HIDE DEF e
      <3>1. r = Append(q, e) /\ e \in Descriptor
        BY <2>1, <2>3
      <3>2. j \in DOMAIN r /\ r[j] = q[j]
        BY <1>2, <3>1
      <3>3. QED
        BY <3>2, Zenon DEF SameDescriptor
    <2>4. QED
      BY <2>2, <2>3
  <1>10. CASE UNCHANGED engine
    BY <1>3, <1>10
  <1>11. QED
    BY <1>4, <1>5, <1>6, <1>7, <1>8, <1>9, <1>10, EngineMoves, Zenon

\* A call that has submitted the transfer it waits for
Submitted(s) ==
  s # <<>> /\ Last(s).op = "wait" /\ \A i \in DOMAIN s : s[i].op # "submit"

\* What another process does leaves a call and what has become of its transfer alone.
LEMMA OthersStay ==
  ASSUME Types, NEW r \in Process, ProcessStep(r), NEW p \in Process, p # r
  PROVE  /\ todo'[p] = todo[p] /\ cookie'[p] = cookie[p]
         /\ p \in finished => p \in finished'
         /\ p \in stopped => p \in stopped'
  <1>1. EngineTypes /\ CallTypes
    BY DEF Types
  <1>2. CASE \/ axidma_init_dev(r) \/ Leaves(r, "closed") \/ Leaves(r, "aborted")
             \/ \E a \in Address, m \in Memory : axidma_malloc(r, a, m)
             \/ \E a \in Address : axidma_free(r, a)
             \/ \E a \in Address, x \in Exported : axidma_register_buffer(r, a, x)
    BY <1>2 DEF axidma_init_dev, Leaves, axidma_malloc, axidma_mmap, axidma_free,
                axidma_vma_close, axidma_register_buffer, axidma_get_external, dmaVars, callVars,
                historyVars
  <1>3. CASE Called(r)
    <2>1. PICK s : Begin(r, s)
      BY <1>3 DEF Called
    <2>2. todo' = [todo EXCEPT ![r] = s] /\ UNCHANGED <<cookie, finished, stopped>>
      BY <2>1 DEF Begin
    <2>3. QED
      BY <1>1, <2>2 DEF CallTypes
  <1>4. CASE \E d \in ChannelId : axidma_stop_transfer(r, d)
    BY <1>4 DEF axidma_stop_transfer, StopChannel, Terminates, callVars
  <1>5. ASSUME Step(r) PROVE todo'[p] = todo[p]
    BY <1>1, <1>5, StepMoves DEF OnlyCallOf
  <1>6. ASSUME Return(r) PROVE cookie'[p] = cookie[p] /\ (p \in finished => p \in finished')
    BY <1>1, <1>6 DEF Return, CallTypes
  <1>7. CASE Prep(r) \/ PrepareFails(r) \/ WaitTimeout(r)
    BY <1>5, <1>7 DEF Prep, PrepareFails, WaitTimeout, historyVars, Step
  <1>8. CASE Submit(r)
    BY <1>1, <1>5, <1>8 DEF Submit, historyVars, Step, CallTypes
  <1>9. CASE Issue(r) \/ WaitDone(r)
    <2>1. todo'[p] = todo[p]
      BY <1>5, <1>9, Zenon DEF Step
    <2>2. \/ Return(r) /\ stopped' = stopped \ {r}
          \/ UNCHANGED <<cookie, finished, stopped>>
      BY <1>9 DEF Issue, WaitDone
    <2>3. QED
      BY <1>6, <2>1, <2>2
  <1>10. CASE Terminate(r)
    <2>1. todo'[p] = todo[p]
      BY <1>5, <1>10, Zenon DEF Step
    <2>2. Return(r) /\ stopped \ {r} \subseteq stopped'
      BY <1>10 DEF Terminate, Terminates
    <2>3. QED
      BY <1>6, <2>1, <2>2
  <1>11. QED
    BY <1>2, <1>3, <1>4, <1>7, <1>8, <1>9, <1>10, Zenon DEF ProcessStep, Step

\* A call that has submitted its transfer had done so before, unless this step submits it.
LEMMA StillSubmitted ==
  ASSUME Types, Calling, LibNext, NEW p \in Process, Submitted(todo'[p]), ~Submit(p)
  PROVE  /\ Submitted(todo[p]) /\ Last(todo'[p]) = Last(todo[p]) /\ cookie'[p] = cookie[p]
         /\ p \in finished => p \in finished'
         /\ p \in stopped => p \in stopped'
         /\ todo'[p] = todo[p] \/ (Issue(p) /\ todo'[p] = Tail(todo[p]))
  <1>1. EngineTypes /\ CallTypes
    BY DEF Types
  <1>2. todo'[p] # <<>> /\ Last(todo'[p]).op = "wait" /\ \A i \in DOMAIN todo'[p] : todo'[p][i].op # "submit"
    BY DEF Submitted
  <1>3. CASE /\ todo'[p] = todo[p] /\ cookie'[p] = cookie[p]
             /\ p \in finished => p \in finished'
             /\ p \in stopped => p \in stopped'
    BY <1>3
  <1>4. CASE Life \/ \E c \in ChannelId : Finish(c) \/ TakeCallback(c) \/ Callback(c)
    BY <1>3, <1>4 DEF Life, ProbeStep, ProbeFails, axidma_remove, Finish, TakeCallback, Callback,
                      callVars, historyVars
  <1>5. CASE \E r \in Process : r # p /\ ProcessStep(r)
    BY <1>3, <1>5, OthersStay
  <1>6. CASE ProcessStep(p)
    <2>1. CASE UNCHANGED todo /\ todo[p] = <<>>
      BY <1>2, <2>1
    <2>2. CASE Called(p)
      <3>1. PICK s : Program(s) /\ Begin(p, s)
        BY <2>2 DEF Called
      <3>2. todo'[p] = s
        BY <1>1, <3>1 DEF Begin, CallTypes
      <3>3. s # <<>> /\ Head(s).op = "prep" /\ s \in Seq(CallStep) /\ CallShape(s)
        BY <1>2, <3>1, <3>2 DEF Program
      <3>4. 1 \in DOMAIN s /\ Head(s) = s[1] /\ DOMAIN s = 1 .. Len(s) /\ Len(s) \in Nat
        BY <3>3
      <3>5. s[1].op = "prep" /\ StepShape(s, 1)
        BY <3>3, <3>4 DEF CallShape
      <3>6. 1 < Len(s) /\ s[1 + 1].op = "submit"
        BY <3>5 DEF StepShape
      <3>7. 2 \in DOMAIN s /\ s[2].op = "submit"
        BY <3>4, <3>6
      <3>8. QED
        BY <1>2, <3>2, <3>7
    <2>3. CASE Step(p)
      <3>1. /\ todo[p] # <<>>
            /\ todo'[p] = Tail(todo[p]) \/ todo'[p] = <<>> \/ Failed(p)
            /\ todo'[p] \in Seq(CallStep)
        BY <1>1, <2>3, StepMoves DEF OnlyCallOf
      <3>2. ~Failed(p)
        BY <1>2, <3>1 DEF Failed, Last
      <3>3. todo'[p] = Tail(todo[p])
        BY <1>2, <3>1, <3>2
      <3> DEFINE s == todo[p]
      <3>4. /\ Head(s) = s[1] /\ 1 \in DOMAIN s /\ s \in Seq(CallStep)
            /\ \A i \in DOMAIN Tail(s) : i + 1 \in DOMAIN s /\ Tail(s)[i] = s[i + 1]
            /\ Len(Tail(s)) = Len(s) - 1 /\ Len(s) \in Nat /\ DOMAIN Tail(s) = 1 .. (Len(s) - 1)
            /\ DOMAIN s = 1 .. Len(s)
        BY <1>1, <3>1, FirstStep, Fields
      <3>5. CallShape(s)
        BY DEF Calling
      <3>6. Last(Tail(s)) = Last(s) /\ Len(s) > 1
        <4>1. Tail(s) # <<>> /\ Tail(s) \in Seq(CallStep)
          BY <1>2, <3>1, <3>3
        <4>2. Len(s) - 1 > 0
          BY <3>4, <4>1
        <4>3. Len(s) - 1 \in DOMAIN Tail(s) /\ (Len(s) - 1) + 1 = Len(s)
          BY <3>4, <4>2
        <4>4. Tail(s)[Len(s) - 1] = s[Len(s)]
          BY <3>4, <4>3
        <4>5. QED
          BY <3>4, <4>2, <4>4 DEF Last
      <3>7. ~Doing(p, "prep") /\ ~Doing(p, "wait") /\ ~Doing(p, "terminate")
        <4>1. StepShape(s, 1)
          BY <3>4, <3>5 DEF CallShape
        <4>2. s[1].op # "wait" /\ s[1].op # "terminate"
          BY <3>4, <3>6, <4>1 DEF StepShape
        <4>3. s[1].op = "prep" => s[1 + 1].op = "submit"
          BY <4>1 DEF StepShape
        <4>4. 1 \in DOMAIN Tail(s) /\ Tail(s)[1] = s[1 + 1]
          BY <3>4, <3>6
        <4>5. Tail(s)[1].op # "submit"
          BY <1>2, <3>3, <4>4
        <4>6. s[1].op # "prep"
          BY <4>3, <4>4, <4>5
        <4>7. QED
          BY <3>4, <4>2, <4>6 DEF Doing
      <3>8. Issue(p)
        <4>1. ~PrepareFails(p)
          <5>1. PrepareFails(p) => FailWith(p, "terminate")
            BY Zenon DEF PrepareFails
          <5>2. FailWith(p, "terminate") => Failed(p)
            BY <1>1, <3>1, FailedEffect
          <5>3. QED
            BY <3>2, <5>1, <5>2
        <4>2. QED
          BY <2>3, <3>7, <4>1, Zenon DEF Step, Prep, WaitDone, WaitTimeout, Terminate
      <3>9. UNCHANGED <<cookie, finished, stopped>> /\ Head(s).op = "issue"
        <4>1. Return(p) => todo'[p] = <<>>
          BY <1>1, Returned
        <4>2. QED
          BY <1>2, <3>8, <4>1 DEF Issue, Doing
      <3>10. \A i \in DOMAIN s : s[i].op # "submit"
        <4> SUFFICES ASSUME NEW i \in DOMAIN s, i # 1 PROVE s[i].op # "submit"
          BY <3>4, <3>9
        <4>1. i - 1 \in DOMAIN Tail(s) /\ (i - 1) + 1 = i
          BY <3>4
        <4>2. Tail(s)[i - 1] = s[i]
          BY <3>4, <4>1
        <4>3. QED
          BY <1>2, <3>3, <4>1, <4>2
      <3>11. Submitted(s)
        BY <1>2, <3>1, <3>3, <3>6, <3>10 DEF Submitted
      <3>12. QED
        BY <3>3, <3>6, <3>8, <3>9, <3>11
    <2>4. \/ UNCHANGED todo /\ todo[p] = <<>>
          \/ Called(p) \/ Step(p)
      BY <1>6 DEF ProcessStep, axidma_init_dev, Leaves, axidma_malloc, axidma_mmap, axidma_free,
                  axidma_vma_close, axidma_register_buffer, axidma_get_external,
                  axidma_stop_transfer, StopChannel, Opened, dmaVars, callVars
    <2>5. QED
      BY <2>1, <2>2, <2>3, <2>4
  <1>7. QED
    BY <1>4, <1>5, <1>6, Steps, Zenon

\* While a call waits, every descriptor of its process on the channel has a cookie up to
\* that of its transfer, and its own descriptor is there and not done, unless the
\* hardware has finished it or another call has terminated the channel.
AwaitedBy(p, q, k) ==
  /\ \A i \in DOMAIN q : q[i].owner = p => q[i].cookie <= k
  /\ p \notin finished \cup stopped =>
       \E i \in DOMAIN q : q[i].owner = p /\ q[i].cookie = k /\ q[i].wait /\ q[i].state # "done"
Awaited ==
  \A p \in Process : Submitted(todo[p]) =>
    AwaitedBy(p, engine[Last(todo[p]).chan].queue, cookie[p])

\* Submitting the transfer makes it so.
LEMMA SubmitAwaited ==
  ASSUME Types, QueuesOrdered, Calling, NEW p \in Process, Submit(p), Submitted(todo'[p])
  PROVE  /\ \A i \in DOMAIN engine'[Last(todo'[p]).chan].queue :
              LET d == engine'[Last(todo'[p]).chan].queue[i] IN d.owner = p => d.cookie <= cookie'[p]
         /\ \E i \in DOMAIN engine'[Last(todo'[p]).chan].queue :
              LET d == engine'[Last(todo'[p]).chan].queue[i] IN
                d.owner = p /\ d.cookie = cookie'[p] /\ d.wait /\ d.state # "done"
  <1> DEFINE s == todo[p]
             t == Head(s)
             c == t.chan
             q == engine[c].queue
             d == [owner |-> p, mem |-> t.mem, cookie |-> engine[c].used + 1, wait |-> t.wait,
                   state |-> "submitted"]
  <1>1. EngineTypes /\ CallTypes
    BY DEF Types
  <1>2. s # <<>> /\ t.op = "submit" /\ Advance(p)
    BY DEF Submit, Doing
  <1>3. todo'[p] = Tail(s)
    BY <1>1, <1>2, Advanced
  <1>4. /\ Head(s) = s[1] /\ 1 \in DOMAIN s /\ s \in Seq(CallStep)
        /\ \A i \in DOMAIN Tail(s) : i + 1 \in DOMAIN s /\ Tail(s)[i] = s[i + 1]
        /\ Len(Tail(s)) = Len(s) - 1 /\ Len(s) \in Nat /\ DOMAIN Tail(s) = 1 .. (Len(s) - 1)
        /\ DOMAIN s = 1 .. Len(s) /\ Tail(s) \in Seq(CallStep)
        /\ c \in ChannelId /\ t.wait \in BOOLEAN
    BY <1>1, <1>2, FirstStep, Fields
  <1>5. /\ Tail(s) # <<>> /\ Last(Tail(s)).op = "wait"
        /\ \A i \in DOMAIN Tail(s) : Tail(s)[i].op # "submit"
    BY <1>3 DEF Submitted
  <1>6. Last(Tail(s)) = Last(s)
    <2>1. Len(s) - 1 > 0
      BY <1>4, <1>5
    <2>2. Len(s) - 1 \in DOMAIN Tail(s) /\ (Len(s) - 1) + 1 = Len(s)
      BY <1>4, <2>1
    <2>3. Tail(s)[Len(s) - 1] = s[Len(s)]
      BY <1>4, <2>2
    <2>4. QED
      BY <1>4, <2>1, <2>3 DEF Last
  <1>7. StepShape(s, 1)
    BY <1>4 DEF Calling, CallShape
  <1>8. t.wait
    <2> SUFFICES ASSUME ~t.wait PROVE FALSE
      OBVIOUS
    <2>1. PICK j \in DOMAIN s : j > 1 /\ s[j].op = "submit"
      BY <1>2, <1>4, <1>5, <1>6, <1>7 DEF StepShape
    <2>2. j - 1 \in DOMAIN Tail(s) /\ (j - 1) + 1 = j
      BY <1>4, <2>1
    <2>3. Tail(s)[j - 1] = s[j]
      BY <1>4, <2>2
    <2>4. QED
      BY <1>5, <2>1, <2>2, <2>3
  <1>9. Last(todo'[p]).chan = c
    BY <1>2, <1>3, <1>4, <1>6, <1>7, <1>8 DEF StepShape
  <1>10. /\ engine'[c].queue = Append(q, d) /\ d \in Descriptor
         /\ cookie' = [cookie EXCEPT ![p] = engine[c].used + 1]
    BY <1>1, SubmitEffect, Zenon
  <1>11. cookie'[p] = engine[c].used + 1
    BY <1>1, <1>10 DEF CallTypes
  <1>12. d.owner = p /\ d.cookie = engine[c].used + 1 /\ d.wait = t.wait /\ d.state = "submitted"
    OBVIOUS
  <1>13. /\ q \in Seq(Descriptor) /\ Len(q) \in Nat /\ DOMAIN q = 1 .. Len(q)
         /\ engine[c].used \in Nat
         /\ \A i \in DOMAIN q : q[i].cookie \in Nat /\ q[i].cookie <= engine[c].used
    <2>1. q \in Seq(Descriptor) /\ engine[c].used \in Nat /\ \A i \in DOMAIN q : q[i].cookie \in Nat
      BY <1>1, <1>4, Fields, Zenon
    <2>2. Ordered(engine[c])
      BY <1>4, Zenon DEF QueuesOrdered
    <2>3. \A i \in DOMAIN q : q[i].cookie <= engine[c].used
      BY <2>2, Zenon DEF Ordered
    <2>4. QED
      BY <2>1, <2>3, LenProperties
  <1> HIDE DEF d, q, c, t, s
  <1>14. /\ DOMAIN Append(q, d) = 1 .. Len(q) + 1 /\ Append(q, d)[Len(q) + 1] = d
         /\ \A i \in 1 .. Len(q) : Append(q, d)[i] = q[i]
    BY <1>10, <1>13, AppendProperties
  <1> DEFINE r == Append(q, d)
             k == engine[c].used + 1
  <1>15. \A i \in DOMAIN r : r[i].owner = p => r[i].cookie <= k
    BY <1>12, <1>13, <1>14
  <1>16. \E i \in DOMAIN r : r[i].owner = p /\ r[i].cookie = k /\ r[i].wait /\ r[i].state # "done"
    <2>1. Len(q) + 1 \in DOMAIN r
      BY <1>13, <1>14
    <2>2. QED
      BY <1>8, <1>12, <1>14, <2>1
  <1> HIDE DEF r, k
  <1>17. engine'[Last(todo'[p]).chan].queue = r /\ cookie'[p] = k
    BY <1>9, <1>10, <1>11 DEF r, k
  <1>18. QED
    BY <1>15, <1>16, <1>17

\* Every step keeps that.
LEMMA AwaitedNext ==
  ASSUME Types, QueuesOrdered, Calling, Awaited, LibNext
  PROVE  Awaited'
  <1>1. EngineTypes /\ CallTypes /\ EngineTypes' /\ CallTypes'
    BY EngineTyped, CallTyped DEF Types
  <1> SUFFICES ASSUME NEW p \in Process, Submitted(todo'[p])
               PROVE  /\ \A i \in DOMAIN engine'[Last(todo'[p]).chan].queue :
                           LET d == engine'[Last(todo'[p]).chan].queue[i] IN
                             d.owner = p => d.cookie <= cookie'[p]
                      /\ p \notin finished' \cup stopped' =>
                           \E i \in DOMAIN engine'[Last(todo'[p]).chan].queue :
                             LET d == engine'[Last(todo'[p]).chan].queue[i] IN
                               d.owner = p /\ d.cookie = cookie'[p] /\ d.wait /\ d.state # "done"
    BY DEF Awaited, AwaitedBy
  <1>2. CASE Submit(p)
    BY <1>2, SubmitAwaited
  <1>3. CASE ~Submit(p)
    <2> DEFINE c == Last(todo[p]).chan
               q == engine[c].queue
               r == engine'[c].queue
    <2>1. /\ Submitted(todo[p]) /\ Last(todo'[p]) = Last(todo[p]) /\ cookie'[p] = cookie[p]
          /\ p \in finished => p \in finished'
          /\ p \in stopped => p \in stopped'
          /\ todo'[p] = todo[p] \/ (Issue(p) /\ todo'[p] = Tail(todo[p]))
      BY <1>3, StillSubmitted
    <2>2. /\ \A i \in DOMAIN q : q[i].owner = p => q[i].cookie <= cookie[p]
          /\ p \notin finished \cup stopped =>
               \E i \in DOMAIN q : q[i].owner = p /\ q[i].cookie = cookie[p] /\ q[i].wait
                                     /\ q[i].state # "done"
      BY <2>1, Zenon DEF Awaited, AwaitedBy
    <2>3. /\ todo[p] # <<>> /\ todo[p] \in Seq(CallStep) /\ Len(todo[p]) \in DOMAIN todo[p]
          /\ todo[p][Len(todo[p])].chan = c /\ c \in ChannelId
      <3>1. todo[p] # <<>> /\ todo[p] \in Seq(CallStep)
        BY <1>1, <2>1, Fields DEF Submitted
      <3>2. Len(todo[p]) \in DOMAIN todo[p] /\ Last(todo[p]) = todo[p][Len(todo[p])]
        BY <3>1 DEF Last
      <3>3. QED
        BY <1>1, <3>1, <3>2, Fields
    <2>4. ASSUME NEW i \in DOMAIN r, r[i].owner = p PROVE r[i].cookie <= cookie'[p]
      <3>1. CASE \E j \in DOMAIN q : SameDescriptor(r[i], q[j])
        BY <2>1, <2>2, <2>4, <3>1 DEF SameDescriptor
      <3>2. \/ \E j \in DOMAIN q : SameDescriptor(r[i], q[j])
            \/ \E x \in Process : Submit(x) /\ r[i].owner = x
        BY <2>3, QueueMoves
      <3>3. QED
        BY <1>3, <2>4, <3>1, <3>2
    <2>5. ASSUME p \notin finished' \cup stopped'
          PROVE  \E i \in DOMAIN r : r[i].owner = p /\ r[i].cookie = cookie'[p] /\ r[i].wait
                                       /\ r[i].state # "done"
      <3>1. PICK j \in DOMAIN q : q[j].owner = p /\ q[j].cookie = cookie[p] /\ q[j].wait
                                    /\ q[j].state # "done"
        BY <2>1, <2>2, <2>5
      <3>2. CASE \E i \in DOMAIN r : SameDescriptor(r[i], q[j]) /\ r[i].state # "done"
        BY <2>1, <3>1, <3>2 DEF SameDescriptor
      <3>3. ~(q[j].wait => q[j].owner \in finished')
        BY <2>5, <3>1
      <3>4. ASSUME NEW x \in Process, Terminates(x, c), todo'[x] = <<>> PROVE FALSE
        <4>1. x # p
          BY <3>4 DEF Submitted
        <4>2. p \in Users(c)
          BY <2>3 DEF Users
        <4>3. stopped' = (stopped \ {x}) \cup {y \in Users(c) \ {x} : todo[y] # <<>>}
          BY <3>4 DEF Terminates
        <4>4. QED
          BY <2>3, <2>5, <4>1, <4>2, <4>3
      <3>5. CASE axidma_remove
        <4>1. \A x \in Process : lib[x].stage # "ready"
          BY <3>5, RemovedUnused
        <4>2. QED
          BY <2>3, <4>1 DEF Calling
      <3>6. \/ \E i \in DOMAIN r : SameDescriptor(r[i], q[j]) /\ r[i].state # "done"
            \/ q[j].wait => q[j].owner \in finished'
            \/ \E x \in Process : Terminates(x, c) /\ todo'[x] = <<>>
            \/ axidma_remove
        BY <2>3, <3>1, NotLost, Zenon
      <3>7. QED
        BY <3>2, <3>3, <3>4, <3>5, <3>6, Zenon
    <2>6. Last(todo'[p]).chan = c
      BY <2>1
    <2>7. QED
      BY <2>4, <2>5, <2>6
  <1>4. QED
    BY <1>2, <1>3

\* Only a step of its own changes a call that is under way.
LEMMA OwnStep ==
  ASSUME Types, LibNext, NEW p \in Process, todo[p] # <<>>, todo'[p] # todo[p]
  PROVE  Step(p) /\ UNCHANGED lib
  <1>1. CASE Life \/ \E c \in ChannelId : Finish(c) \/ TakeCallback(c) \/ Callback(c)
    BY <1>1
       DEF Life, ProbeStep, ProbeFails, axidma_remove, Finish, TakeCallback, Callback, callVars
  <1>2. ASSUME NEW r \in Process, ProcessStep(r) PROVE Step(p) /\ UNCHANGED lib
    <2>1. r = p
      BY <1>2, OthersStay
    <2>2. QED
      BY <1>2, <2>1
         DEF ProcessStep, axidma_init_dev, Leaves, axidma_malloc, axidma_mmap, axidma_free,
                        axidma_vma_close, axidma_register_buffer, axidma_get_external, Called,
                        axidma_stop_transfer, StopChannel, Opened, Ready, dmaVars, callVars
  <1>3. QED
    BY <1>1, <1>2, Steps, Zenon

\* A wait that succeeds finds the status of its transfer complete.
LEMMA WaitSucceeds ==
  ASSUME Types, Calling, LibNext, NEW p \in Process, Doing(p, "wait"), todo'[p] = <<>>
  PROVE  /\ Submitted(todo[p]) /\ Last(todo[p]).chan = Head(todo[p]).chan
         /\ Head(todo[p]).chan \in ChannelId
         /\ cookie[p] <= engine[Head(todo[p]).chan].last /\ UNCHANGED engine
  <1>1. EngineTypes /\ CallTypes
    BY DEF Types
  <1>2. todo[p] # <<>> /\ Head(todo[p]).op = "wait"
    BY DEF Doing
  <1>3. /\ Head(todo[p]) = todo[p][1] /\ 1 \in DOMAIN todo[p] /\ Head(todo[p]).chan \in ChannelId
        /\ DOMAIN todo[p] = 1 .. Len(todo[p])
    BY <1>1, <1>2, FirstStep
  <1>4. StepShape(todo[p], 1)
    BY <1>3 DEF Calling, CallShape
  <1>5. Len(todo[p]) = 1
    BY <1>2, <1>3, <1>4 DEF StepShape
  <1>6. Last(todo[p]) = Head(todo[p])
    BY <1>3, <1>5 DEF Last
  <1>7. \A i \in DOMAIN todo[p] : todo[p][i].op # "submit"
    <2>1. \A i \in 1 .. 1 : i = 1
      OBVIOUS
    <2>2. QED
      BY <1>2, <1>3, <1>5, <2>1
  <1>8. Step(p)
    BY <1>2, OwnStep
  <1>9. ~FailWith(p, "terminate")
    BY <1>1, <1>2, FailedEffect
  <1>10. WaitDone(p)
    BY <1>2, <1>8, <1>9 DEF Step, Prep, Submit, PrepareFails, Issue, WaitTimeout, Terminate, Doing
  <1>11. IsComplete(Head(todo[p]).chan, cookie[p]) /\ UNCHANGED engine
    BY <1>9, <1>10 DEF WaitDone
  <1>12. QED
    BY <1>2, <1>3, <1>6, <1>7, <1>11 DEF Submitted, IsComplete

\* The invariant of the calls that wait
LEMMA AwaitedInvariant == LibSpec => []Awaited
  <1>1. LibInit => Awaited
    BY DEF LibInit, DmaInit, Awaited, Submitted
  <1>2. Base /\ Awaited /\ [LibNext]_libVars => Awaited'
    <2> SUFFICES ASSUME Base, Awaited, [LibNext]_libVars PROVE Awaited'
      OBVIOUS
    <2>1. CASE LibNext
      BY <2>1, AwaitedNext, Zenon DEF Base
    <2>2. CASE UNCHANGED libVars
      <3>1. UNCHANGED <<engine, todo, cookie, finished, stopped>>
        BY <2>2 DEF libVars, dmaVars, callVars, historyVars
      <3>2. QED
        BY <3>1 DEF Awaited, AwaitedBy, Submitted
    <2>3. QED
      BY <2>1, <2>2
  <1>3. QED
    BY <1>1, <1>2, BaseInvariant, PTL DEF LibSpec

\* A call that waits for its transfer (axidma_start_transfer) succeeds only when the
\* hardware has finished that transfer, whoever has woken the call - or when another call
\* has terminated the channel meanwhile and a later transfer has made its cookie count as
\* complete.
THEOREM WaitsForItsOwn == LibSpec => SuccessIsOwn
  <1>1. Base /\ Awaited /\ [LibNext]_libVars => [SuccessIsOwnStep]_libVars
    <2> SUFFICES ASSUME Base, Awaited, LibNext, NEW p \in Process, Doing(p, "wait"), todo'[p] = <<>>
                 PROVE  p \in finished \cup stopped
      BY DEF SuccessIsOwnStep
    <2> DEFINE c == Head(todo[p]).chan
               q == engine[c].queue
    <2>1. Submitted(todo[p]) /\ Last(todo[p]).chan = c /\ c \in ChannelId /\ cookie[p] <= engine[c].last
      BY WaitSucceeds DEF Base
    <2>2. p \notin finished \cup stopped => \E i \in DOMAIN q : q[i].cookie = cookie[p] /\ q[i].state # "done"
      <3>1. AwaitedBy(p, q, cookie[p])
        BY <2>1, Zenon DEF Awaited
      <3>2. QED
        BY <3>1, Zenon DEF AwaitedBy
    <2>3. \A i \in DOMAIN q : q[i].state = "done" <=> q[i].cookie <= engine[c].last
      <3>1. Ordered(engine[c])
        BY <2>1, Zenon DEF Base, QueuesOrdered
      <3>2. QED
        BY <3>1, Zenon DEF Ordered
    <2>4. QED
      BY <2>1, <2>2, <2>3
  <1>2. QED
    BY <1>1, BaseInvariant, AwaitedInvariant, PTL DEF LibSpec, SuccessIsOwn

\* When a call that has waited, or has failed, returns, no transfer of its process is
\* still to be done on the channel it gave up, so that nothing writes to its buffer
\* afterwards (stop_dma of axidma_start_transfer).
THEOREM NothingLeftBehind == LibSpec => ReturnsQuiet
  <1>1. Base /\ Awaited /\ [LibNext]_libVars => [ReturnsQuietStep]_libVars
    <2> SUFFICES ASSUME Base, Awaited, LibNext, NEW p \in Process,
                        Doing(p, "wait") \/ Doing(p, "terminate"), todo'[p] = <<>>
                 PROVE  \A i \in DOMAIN engine'[Head(todo[p]).chan].queue :
                          LET d == engine'[Head(todo[p]).chan].queue[i] IN d.owner = p => d.state = "done"
      BY DEF ReturnsQuietStep
    <2> DEFINE c == Head(todo[p]).chan
               q == engine[c].queue
    <2>1. EngineTypes /\ CallTypes /\ Types /\ Calling
      BY DEF Base, Types
    <2>2. CASE Doing(p, "wait")
      <3>1. Submitted(todo[p]) /\ Last(todo[p]).chan = c /\ c \in ChannelId /\ cookie[p] <= engine[c].last
            /\ UNCHANGED engine
        BY <2>1, <2>2, WaitSucceeds
      <3>2. \A i \in DOMAIN q : q[i].owner = p => q[i].cookie <= cookie[p]
        <4>1. AwaitedBy(p, q, cookie[p])
          BY <3>1, Zenon DEF Awaited
        <4>2. QED
          BY <4>1, Zenon DEF AwaitedBy
      <3>3. \A i \in DOMAIN q : q[i].state = "done" <=> q[i].cookie <= engine[c].last
        <4>1. Ordered(engine[c])
          BY <3>1, Zenon DEF Base, QueuesOrdered
        <4>2. QED
          BY <4>1, Zenon DEF Ordered
      <3>4. cookie[p] \in Nat /\ engine[c].last \in Nat /\ \A i \in DOMAIN q : q[i].cookie \in Nat
        BY <2>1, <3>1, Fields
      <3>5. \A i \in DOMAIN q : q[i].owner = p => q[i].state = "done"
        <4>1. SUFFICES ASSUME NEW i \in DOMAIN q, q[i].owner = p PROVE q[i].cookie <= engine[c].last
          BY <3>3, Zenon
        <4>2. q[i].cookie <= cookie[p] /\ cookie[p] <= engine[c].last /\ q[i].cookie \in Nat
          BY <3>1, <3>2, <3>4, <4>1, Zenon
        <4>3. cookie[p] \in Nat /\ engine[c].last \in Nat
          BY <3>4
        <4>4. QED
          BY ONLY <4>2, <4>3
      <3>6. QED
        BY <3>1, <3>5, Zenon
    <2>3. CASE Doing(p, "terminate")
      <3>1. todo[p] # <<>> /\ Head(todo[p]).op = "terminate"
        BY <2>3 DEF Doing
      <3>2. Step(p) /\ c \in ChannelId
        BY <2>1, <3>1, OwnStep, FirstStep
      <3>3. Terminate(p)
        BY <3>1, <3>2 DEF Step, Prep, Submit, PrepareFails, Issue, WaitDone, WaitTimeout, Doing
      <3>4. engine'[c].queue = <<>>
        BY <2>1, <3>2, <3>3, TerminatedEffect DEF Terminate, Terminates
      <3>5. QED
        BY <3>4
    <2>4. QED
      BY <2>2, <2>3
  <1>2. QED
    BY <1>1, BaseInvariant, AwaitedInvariant, PTL DEF LibSpec, ReturnsQuiet

--------------------------------------------------------------------------------
(* the target of a callback                                                    *)

\* A call that has submitted its transfers and gives up the channel at its end
Awaiting(s, c) ==
  /\ s # <<>> /\ Last(s).op \in {"wait", "terminate"} /\ Last(s).chan = c
  /\ \A i \in DOMAIN s : s[i].op \notin {"prep", "submit"}
Submits(s, c) == s # <<>> /\ Head(s).op = "submit" /\ Head(s).chan = c

\* One transfer at a time, of which the hardware may have taken note
Single(c) == Len(engine[c].queue) <= 1 /\ ~(engine[c].inflight /\ engine[c].queue # <<>>)
Begun(c) ==
  \/ engine[c].inflight
  \/ \E i \in DOMAIN engine[c].queue : engine[c].queue[i].state # "submitted"

\* Whom the callback of a channel is to wake or to signal: a call that waits for its
\* only transfer, or a process with an open handle; who has set the data submits.
OneTarget(c) ==
  /\ cb_data[c].comp # None /\ Busy(c) =>
       Awaiting(todo[cb_data[c].comp], c) /\ cb_data[c].comp \notin completed
  /\ cb_data[c].comp # None => Single(c)
  /\ cb_data[c].comp # None /\ Begun(c) => Head(todo[cb_data[c].comp]).chan = c
  /\ cb_data[c].comp = None /\ Busy(c) =>
       cb_data[c].process \in Process /\ lib[cb_data[c].process].stage = "ready"
  /\ \A r \in Process : Prepared(todo[r], c) =>
       cb_data[c].comp = r \/ (cb_data[c].comp = None /\ cb_data[c].process = r)
  /\ \A r \in Process : Submits(todo[r], c) =>
       IF Head(todo[r]).wait THEN cb_data[c].comp = r /\ ~Busy(c) /\ r \notin completed
       ELSE cb_data[c].comp = None /\ cb_data[c].process = r
Targets == \A c \in ChannelId : c \notin excused => OneTarget(c)

\* The same after a step, written out
LEMMA TargetAfter ==
  ASSUME NEW c
  PROVE  OneTarget(c)' <=>
           /\ cb_data'[c].comp # None /\ Busy(c)' =>
                Awaiting(todo'[cb_data'[c].comp], c) /\ cb_data'[c].comp \notin completed'
           /\ cb_data'[c].comp # None => Single(c)'
           /\ cb_data'[c].comp # None /\ Begun(c)' => Head(todo'[cb_data'[c].comp]).chan = c
           /\ cb_data'[c].comp = None /\ Busy(c)' =>
                cb_data'[c].process \in Process /\ lib'[cb_data'[c].process].stage = "ready"
           /\ \A r \in Process : Prepared(todo'[r], c) =>
                cb_data'[c].comp = r \/ (cb_data'[c].comp = None /\ cb_data'[c].process = r)
           /\ \A r \in Process : Submits(todo'[r], c) =>
                IF Head(todo'[r]).wait
                THEN cb_data'[c].comp = r /\ ~Busy(c)' /\ r \notin completed'
                ELSE cb_data'[c].comp = None /\ cb_data'[c].process = r
  BY DEF OneTarget, Awaiting, Submits, Prepared

\* What a step has to leave as it is, when it does not set the data of the channel
LEMMA TargetStays ==
  ASSUME NEW c \in ChannelId, OneTarget(c), cb_data'[c] = cb_data[c],
         Busy(c)' => Busy(c),
         cb_data[c].comp # None => Single(c)',
         cb_data[c].comp # None /\ Busy(c)' =>
           Awaiting(todo'[cb_data[c].comp], c) /\ cb_data[c].comp \notin completed',
         cb_data[c].comp # None /\ Begun(c)' => Head(todo'[cb_data[c].comp]).chan = c,
         cb_data[c].comp = None /\ Busy(c)' => lib'[cb_data[c].process].stage = "ready",
         \A r \in Process : Prepared(todo'[r], c) => Prepared(todo[r], c),
         \A r \in Process : Submits(todo'[r], c) =>
           todo'[r] = todo[r] /\ (r \notin completed => r \notin completed')
  PROVE  OneTarget(c)'
  <1>1. cb_data'[c].comp = cb_data[c].comp /\ cb_data'[c].process = cb_data[c].process
    OBVIOUS
  <1>2. \A r \in Process : Prepared(todo'[r], c) =>
          cb_data[c].comp = r \/ (cb_data[c].comp = None /\ cb_data[c].process = r)
    BY Zenon DEF OneTarget
  <1>3. ASSUME NEW r \in Process, Submits(todo'[r], c)
        PROVE  IF Head(todo'[r]).wait THEN cb_data[c].comp = r /\ ~Busy(c)' /\ r \notin completed'
               ELSE cb_data[c].comp = None /\ cb_data[c].process = r
    <2>1. todo'[r] = todo[r] /\ (r \notin completed => r \notin completed')
      BY <1>3
    <2>2. Submits(todo[r], c)
      BY <1>3, <2>1
    <2>3. IF Head(todo[r]).wait THEN cb_data[c].comp = r /\ ~Busy(c) /\ r \notin completed
          ELSE cb_data[c].comp = None /\ cb_data[c].process = r
      BY <2>2, Zenon DEF OneTarget
    <2>4. QED
      BY <2>1, <2>3
  <1>4. cb_data[c].comp = None /\ Busy(c)' => cb_data[c].process \in Process
    BY Zenon DEF OneTarget
  <1>5. QED
    BY <1>1, <1>2, <1>3, <1>4, TargetAfter

\* The rest of a call
LEMMA RestOfCall ==
  ASSUME Types, Calling, NEW r \in Process, todo[r] # <<>>, NEW c \in ChannelId
  PROVE  LET s == todo[r] IN
           /\ Head(s) = s[1]
           /\ Prepared(Tail(s), c) /\ (s[1].op # "prep" \/ s[1].chan # c) => Prepared(s, c)
           /\ s[1].op # "prep" \/ s[1].chan # c => ~Submits(Tail(s), c)
           /\ s[1].op = "prep" => /\ Tail(s) # <<>> /\ Head(Tail(s)).op = "submit"
                                  /\ Head(Tail(s)).chan = s[1].chan
                                  /\ Head(Tail(s)).wait = s[1].wait
           /\ Awaiting(s, c) /\ Len(s) # 1 => Awaiting(Tail(s), c)
           /\ s[1].op = "submit" /\ s[1].wait => Awaiting(Tail(s), s[1].chan)
  <1> DEFINE s == todo[r]
             t == Tail(s)
             n == Len(s)
  <1>1. /\ t \in Seq(CallStep) /\ Len(t) = n - 1 /\ DOMAIN t = 1 .. (n - 1)
        /\ n \in Nat /\ n > 0 /\ DOMAIN s = 1 .. n
        /\ \A i \in 1 .. (n - 1) : i + 1 \in 1 .. n /\ t[i] = s[i + 1]
        /\ Head(s) = s[1] /\ 1 \in DOMAIN s
    BY FirstStep DEF Types
  <1>2. \A i \in 1 .. n : StepShape(s, i)
    BY <1>1 DEF Calling, CallShape
  <1>3. Last(s) = s[n] /\ Last(t) = t[n - 1]
    BY <1>1 DEF Last
  <1> HIDE DEF s, t, n
  <1>4. n # 1 => /\ t # <<>> /\ Last(t) = Last(s) /\ 1 \in 1 .. (n - 1) /\ Head(t) = t[1]
                 /\ t[1] = s[2]
    <2>1. n # 1 => n - 1 \in 1 .. (n - 1) /\ (n - 1) + 1 = n /\ 1 \in 1 .. (n - 1)
      BY <1>1
    <2>2. n # 1 => Last(t) = Last(s) /\ t[1] = s[2]
      BY <1>1, <1>3, <2>1
    <2>3. n # 1 => t # <<>> /\ Head(t) = t[1]
      BY <1>1
    <2>4. QED
      BY <2>1, <2>2, <2>3
  <1>5. n = 1 => t = <<>>
    BY <1>1
  <1>6. ASSUME Prepared(t, c), s[1].op # "prep" \/ s[1].chan # c PROVE Prepared(s, c)
    <2>1. PICK i \in 1 .. (n - 1) :
            /\ t[i].chan = c /\ t[i].op \in {"submit", "issue"}
            /\ \A j \in 1 .. (n - 1) : j < i /\ t[j].chan = c => t[j].op # "prep"
      BY <1>1, <1>6 DEF Prepared
    <2>2. i + 1 \in 1 .. n /\ s[i + 1] = t[i]
      BY <1>1
    <2>3. ASSUME NEW j \in 1 .. n, j < i + 1, s[j].chan = c PROVE s[j].op # "prep"
      <3>1. CASE j = 1
        BY <1>6, <2>3, <3>1
      <3>2. CASE j # 1
        <4>1. j - 1 \in 1 .. (n - 1) /\ j - 1 < i /\ (j - 1) + 1 = j
          BY <1>1, <2>3, <3>2
        <4>2. t[j - 1] = s[j]
          BY <1>1, <4>1
        <4>3. QED
          BY <2>1, <2>3, <4>1, <4>2
      <3>3. QED
        BY <3>1, <3>2
    <2>4. QED
      BY <1>1, <2>1, <2>2, <2>3 DEF Prepared
  <1>7. StepShape(s, 1) /\ 1 \in 1 .. n
    BY <1>1, <1>2
  <1>8. /\ s[1].op = "prep" => n # 1 /\ s[2].op = "submit" /\ s[2].chan = s[1].chan
                               /\ s[2].wait = s[1].wait
        /\ s[1].op # "prep" /\ n # 1 => s[2].op # "submit"
        /\ s[1].op = "submit" => n # 1
    BY <1>1, <1>7 DEF StepShape, n
  <1>9. s[1].op # "prep" \/ s[1].chan # c => ~Submits(t, c)
    BY <1>4, <1>5, <1>8 DEF Submits
  <1>10. ASSUME Awaiting(s, c), n # 1 PROVE Awaiting(t, c)
    <2>1. Last(s).op \in {"wait", "terminate"} /\ Last(s).chan = c
          /\ \A i \in 1 .. n : s[i].op \notin {"prep", "submit"}
      BY <1>1, <1>10 DEF Awaiting
    <2>2. \A i \in 1 .. (n - 1) : t[i].op \notin {"prep", "submit"}
      BY <1>1, <2>1
    <2>3. QED
      BY <1>1, <1>4, <1>10, <2>1, <2>2 DEF Awaiting
  <1>11. ASSUME s[1].op = "submit", s[1].wait PROVE Awaiting(t, s[1].chan)
    <2>1. /\ Last(s).op = "wait" /\ Last(s).chan = s[1].chan
          /\ \A j \in 1 .. n : j > 1 => s[j].op \notin {"prep", "submit"}
      BY <1>1, <1>7, <1>11 DEF StepShape
    <2>2. \A i \in 1 .. (n - 1) : t[i].op \notin {"prep", "submit"}
      <3>1. \A i \in 1 .. (n - 1) : i + 1 > 1
        BY <1>1
      <3>2. QED
        BY <1>1, <2>1, <3>1
    <2>3. QED
      BY <1>1, <1>4, <1>8, <1>11, <2>1, <2>2 DEF Awaiting
  <1>12. QED
    BY <1>1, <1>4, <1>6, <1>8, <1>9, <1>10, <1>11, Zenon DEF s, t, n

\* A call that has failed gives up the channel, and has prepared nothing any more.
LEMMA FailedCall ==
  ASSUME NEW r \in Process, OnlyCallOf(r), Failed(r), NEW c \in ChannelId
  PROVE  /\ ~Prepared(todo'[r], c) /\ ~Submits(todo'[r], c)
         /\ Awaiting(todo'[r], Head(todo[r]).chan)
         /\ Head(todo'[r]).chan = Head(todo[r]).chan
  <1>1. todo'[r] \in Seq(CallStep) /\ Len(todo'[r]) = 1
    BY DEF OnlyCallOf, Failed
  <1>2. DOMAIN todo'[r] = {1} /\ Head(todo'[r]) = todo'[r][1] /\ Last(todo'[r]) = todo'[r][1]
        /\ todo'[r] # <<>>
    BY <1>1, SMTT(30) DEF Last
  <1>3. todo'[r][1].op = "terminate" /\ todo'[r][1].chan = Head(todo[r]).chan
    BY DEF Failed
  <1>4. QED
    BY <1>2, <1>3 DEF Prepared, Submits, Awaiting

\* A call that has returned
LEMMA EmptyCall ==
  ASSUME NEW c
  PROVE  ~Prepared(<<>>, c) /\ ~Submits(<<>>, c) /\ ~Awaiting(<<>>, c)
  BY DEF Prepared, Submits, Awaiting

\* A channel whose entry in the engine stays
LEMMA SameEntry ==
  ASSUME NEW c \in ChannelId, engine'[c] = engine[c]
  PROVE  (Busy(c)' <=> Busy(c)) /\ (Single(c)' <=> Single(c)) /\ (Begun(c)' <=> Begun(c))
  BY DEF Busy, Single, Begun

\* No step of a call makes the completion of another one done.
LEMMA StepCompletes ==
  ASSUME NEW r \in Process, Step(r)
  PROVE  completed' \subseteq completed
  BY DEF Step, Prep, Submit, PrepareFails, Issue, WaitDone, WaitTimeout, Terminate, Return

\* What a step of a call has to leave as it is, when it does not set the data
LEMMA StepStays ==
  ASSUME Types, NEW c \in ChannelId, OneTarget(c), NEW r \in Process, Step(r), UNCHANGED lib,
         cb_data'[c] = cb_data[c],
         Busy(c)' => Busy(c), cb_data[c].comp # None => Single(c)',
         Prepared(todo'[r], c) => Prepared(todo[r], c), ~Submits(todo'[r], c),
         cb_data[c].comp = r /\ Busy(c)' => Awaiting(todo'[r], c),
         cb_data[c].comp = r /\ Begun(c)' => Head(todo'[r]).chan = c,
         cb_data[c].comp # None /\ cb_data[c].comp # r /\ Begun(c)' => Begun(c)
  PROVE  OneTarget(c)'
  <1> DEFINE p == cb_data[c].comp
  <1>1. EngineTypes /\ CallTypes
    BY DEF Types
  <1>2. completed' \subseteq completed
    BY StepCompletes
  <1>3. \A x \in Process : x # r => todo'[x] = todo[x]
    BY <1>1, StepMoves DEF OnlyCallOf
  <1>4. p # None => p \in Process
    BY <1>1 DEF EngineTypes, CallbackRecord
  <1>5. p # None /\ Busy(c)' => Awaiting(todo'[p], c) /\ p \notin completed'
    <2> SUFFICES ASSUME p # None, Busy(c)' PROVE Awaiting(todo'[p], c) /\ p \notin completed'
      OBVIOUS
    <2>1. Awaiting(todo[p], c) /\ p \notin completed
      BY Zenon DEF OneTarget
    <2>2. CASE p = r
      BY <1>2, <2>1, <2>2
    <2>3. CASE p # r
      BY <1>2, <1>3, <1>4, <2>1, <2>3
    <2>4. QED
      BY <2>2, <2>3
  <1>6. p # None /\ Begun(c)' => Head(todo'[p]).chan = c
    <2> SUFFICES ASSUME p # None, Begun(c)' PROVE Head(todo'[p]).chan = c
      OBVIOUS
    <2>1. CASE p = r
      BY <2>1
    <2>2. CASE p # r
      <3>1. Head(todo[p]).chan = c
        BY <2>2, Zenon DEF OneTarget
      <3>2. QED
        BY <1>3, <1>4, <2>2, <3>1
    <2>3. QED
      BY <2>1, <2>2
  <1>7. p = None /\ Busy(c)' => lib'[cb_data[c].process].stage = "ready"
    BY DEF OneTarget
  <1>8. \A x \in Process : Prepared(todo'[x], c) => Prepared(todo[x], c)
    BY <1>3
  <1>9. \A x \in Process : Submits(todo'[x], c) =>
           todo'[x] = todo[x] /\ (x \notin completed => x \notin completed')
    BY <1>2, <1>3
  <1> HIDE DEF p
  <1>10. QED
    BY <1>5, <1>6, <1>7, <1>8, <1>9, TargetStays, Zenon DEF p

\* A step of a call that leaves the channel alone
LEMMA StepElsewhere ==
  ASSUME Types, NEW c \in ChannelId, OneTarget(c), NEW r \in Process, Step(r), UNCHANGED lib,
         cb_data'[c] = cb_data[c], engine'[c] = engine[c],
         Prepared(todo'[r], c) => Prepared(todo[r], c), ~Submits(todo'[r], c),
         cb_data[c].comp = r /\ Busy(c) =>
           Awaiting(todo'[r], c) /\ (Begun(c) => Head(todo'[r]).chan = c)
  PROVE  OneTarget(c)'
  <1>1. (Busy(c)' <=> Busy(c)) /\ (Single(c)' <=> Single(c)) /\ (Begun(c)' <=> Begun(c))
    BY SameEntry
  <1>2. cb_data[c].comp # None => Single(c)
    BY Zenon DEF OneTarget
  <1>3. Begun(c) => Busy(c)
    BY DEF Begun, Busy
  <1>4. QED
    BY <1>1, <1>2, <1>3, StepStays, Zenon

\* Preparing a transfer
LEMMA PrepTargets ==
  ASSUME Types, Calling, Targets, NEW r \in Process, Prep(r), UNCHANGED lib,
         NEW c \in ChannelId, c \notin excused'
  PROVE  OneTarget(c)'
  <1> DEFINE s == todo[r]
             t == Head(s)
  <1>1. EngineTypes /\ CallTypes
    BY DEF Types
  <1>2. s # <<>> /\ t.op = "prep" /\ Advance(r)
    BY DEF Prep, Doing
  <1>3. /\ cb_data' = [cb_data EXCEPT ![t.chan] = CallbackData(r, t)]
        /\ t.wait => completed' = completed \ {r}
        /\ completed' \subseteq completed
        /\ excused' = IF Busy(t.chan) \/ Users(t.chan) # {r}
                      THEN excused \cup {t.chan} ELSE excused \ {t.chan}
        /\ UNCHANGED engine
    BY DEF Prep
  <1>4. /\ t.chan \in ChannelId /\ t.wait \in BOOLEAN /\ t = s[1]
        /\ OnlyCallOf(r) /\ todo'[r] = Tail(s)
    BY <1>1, <1>2, FirstStep, Advanced
  <1>5. /\ Tail(s) # <<>> /\ Head(Tail(s)).op = "submit"
        /\ Head(Tail(s)).chan = t.chan /\ Head(Tail(s)).wait = t.wait
        /\ c # t.chan => /\ Prepared(Tail(s), c) => Prepared(s, c)
                         /\ ~Submits(Tail(s), c)
    BY <1>2, <1>4, RestOfCall
  <1>6. \A x \in Process : x # r => todo'[x] = todo[x]
    BY <1>4 DEF OnlyCallOf
  <1>7. (Busy(c)' <=> Busy(c)) /\ (Single(c)' <=> Single(c)) /\ (Begun(c)' <=> Begun(c))
    BY <1>3, SameEntry
  <1>8. CASE c # t.chan
    <2>1. c \notin excused /\ cb_data'[c] = cb_data[c]
      BY <1>3, <1>8
    <2>2. OneTarget(c)
      BY <2>1 DEF Targets
    <2>3. ~Awaiting(s, c)
      BY <1>1, <1>2, <1>4, FirstStep DEF Awaiting
    <2>4. ~(cb_data[c].comp = r /\ Busy(c))
      <3>1. r # None
        BY ConstantsAssumption
      <3>2. QED
        BY <2>2, <2>3, <3>1, Zenon DEF OneTarget
    <2>5. Step(r)
      BY Zenon DEF Step
    <2>6. engine'[c] = engine[c]
      BY <1>3
    <2>7. Prepared(todo'[r], c) => Prepared(todo[r], c)
      BY <1>4, <1>5, <1>8
    <2>8. ~Submits(todo'[r], c)
      BY <1>4, <1>5, <1>8
    <2>9. QED
      BY <2>1, <2>2, <2>4, <2>5, <2>6, <2>7, <2>8, StepElsewhere, Zenon
  <1>9. CASE c = t.chan
    <2>1. ~Busy(c) /\ Users(c) = {r}
      BY <1>3, <1>9
    <2>2. cb_data'[c] = CallbackData(r, t)
      BY <1>1, <1>3, <1>4, <1>9 DEF EngineTypes
    <2>3. /\ t.wait => cb_data'[c].comp = r
          /\ ~t.wait => cb_data'[c].comp = None /\ cb_data'[c].process = r
      BY <2>2 DEF CallbackData
    <2>4. ASSUME NEW x \in Process, x # r, NEW i \in DOMAIN todo'[x], todo'[x][i].chan = c PROVE FALSE
      <3>1. x \in Users(c)
        BY <1>6, <2>4 DEF Users
      <3>2. QED
        BY <2>1, <2>4, <3>1
    <2>5. ~Busy(c)' /\ ~Begun(c)' /\ Single(c)'
      BY <1>7, <2>1 DEF Begun, Busy, Single
    <2>6. \A x \in Process : Prepared(todo'[x], c) => x = r
      BY <2>4 DEF Prepared
    <2>7. \A x \in Process : Submits(todo'[x], c) => x = r
      <3> SUFFICES ASSUME NEW x \in Process, x # r, Submits(todo'[x], c) PROVE FALSE
        OBVIOUS
      <3>1. todo'[x] \in Seq(CallStep) /\ todo'[x] # <<>> /\ Head(todo'[x]).chan = c
        BY <1>4 DEF Submits, OnlyCallOf
      <3>2. 1 \in DOMAIN todo'[x] /\ Head(todo'[x]) = todo'[x][1]
        BY <3>1
      <3>3. QED
        BY <2>4, <3>1, <3>2
    <2>8. r # None
      BY ConstantsAssumption
    <2>9. Head(todo'[r]).wait = t.wait
      BY <1>4, <1>5
    <2>10. \A x \in Process : Submits(todo'[x], c) =>
             IF Head(todo'[x]).wait
             THEN cb_data'[c].comp = x /\ ~Busy(c)' /\ x \notin completed'
             ELSE cb_data'[c].comp = None /\ cb_data'[c].process = x
      BY <1>3, <2>3, <2>5, <2>7, <2>9
    <2>11. \A x \in Process : Prepared(todo'[x], c) =>
             cb_data'[c].comp = x \/ (cb_data'[c].comp = None /\ cb_data'[c].process = x)
      BY <1>4, <2>3, <2>6
    <2>12. QED
      BY <2>5, <2>8, <2>10, <2>11, TargetAfter
  <1>10. QED
    BY <1>8, <1>9

\* Submitting a transfer
LEMMA SubmitTargets ==
  ASSUME Types, Calling, Targets, NEW r \in Process, Submit(r), UNCHANGED lib,
         NEW c \in ChannelId, c \notin excused'
  PROVE  OneTarget(c)'
  <1> DEFINE s == todo[r]
             t == Head(s)
             q == engine[c].queue
             d == [owner |-> r, mem |-> t.mem, cookie |-> engine[t.chan].used + 1,
                   wait |-> t.wait, state |-> "submitted"]
  <1>1. EngineTypes /\ CallTypes
    BY DEF Types
  <1>2. s # <<>> /\ t.op = "submit" /\ Advance(r)
        /\ UNCHANGED <<cb_data, completed, excused>>
    BY DEF Submit, Doing, historyVars
  <1>3. t.chan \in ChannelId /\ t.wait \in BOOLEAN /\ t = s[1] /\ 1 \in DOMAIN s
        /\ OnlyCallOf(r) /\ todo'[r] = Tail(s)
    BY <1>1, <1>2, FirstStep, Advanced
  <1>4. /\ Prepared(Tail(s), c) => Prepared(s, c)
        /\ ~Submits(Tail(s), c)
        /\ t.wait => Awaiting(Tail(s), t.chan)
    BY <1>2, <1>3, RestOfCall
  <1>5. OneTarget(c) /\ cb_data'[c] = cb_data[c] /\ Step(r)
    BY <1>2 DEF Targets, Step
  <1>6. /\ engine'[t.chan].queue = Append(engine[t.chan].queue, d) /\ d \in Descriptor
        /\ engine'[t.chan].inflight = engine[t.chan].inflight
        /\ \A x \in ChannelId : x # t.chan => engine'[x] = engine[x]
    BY <1>1, SubmitEffect, Zenon
  <1>7. r # None
    BY ConstantsAssumption
  <1>8. CASE c # t.chan
    <2>1. ~Awaiting(s, c)
      BY <1>2, <1>3 DEF Awaiting
    <2>2. ~(cb_data[c].comp = r /\ Busy(c))
      BY <1>5, <1>7, <2>1, Zenon DEF OneTarget
    <2>3. engine'[c] = engine[c]
      BY <1>6, <1>8
    <2>4. (Prepared(todo'[r], c) => Prepared(todo[r], c)) /\ ~Submits(todo'[r], c)
      BY <1>3, <1>4
    <2>5. QED
      BY <1>5, <2>2, <2>3, <2>4, StepElsewhere, Zenon
  <1>9. CASE c = t.chan
    <2>1. Submits(s, c)
      BY <1>2, <1>9 DEF Submits
    <2>2. IF t.wait THEN cb_data[c].comp = r /\ ~Busy(c) /\ r \notin completed
          ELSE cb_data[c].comp = None /\ cb_data[c].process = r
      BY <1>5, <2>1, Zenon DEF OneTarget
    <2>3. \A x \in Process : x # r => todo'[x] = todo[x]
      BY <1>3 DEF OnlyCallOf
    <2>4. \A x \in Process : Prepared(todo'[x], c) =>
            cb_data'[c].comp = x \/ (cb_data'[c].comp = None /\ cb_data'[c].process = x)
      <3>1. \A x \in Process : Prepared(todo[x], c) =>
              cb_data[c].comp = x \/ (cb_data[c].comp = None /\ cb_data[c].process = x)
        BY <1>5, Zenon DEF OneTarget
      <3>2. QED
        BY <1>3, <1>4, <1>5, <2>3, <3>1
    <2>5. ASSUME NEW x \in Process, Submits(todo'[x], c)
          PROVE  IF Head(todo'[x]).wait
                 THEN cb_data'[c].comp = x /\ ~Busy(c)' /\ x \notin completed'
                 ELSE cb_data'[c].comp = None /\ cb_data'[c].process = x
      <3>1. x # r /\ todo'[x] = todo[x]
        BY <1>3, <1>4, <2>3, <2>5
      <3>2. Submits(todo[x], c)
        BY <2>5, <3>1
      <3>3. IF Head(todo[x]).wait THEN cb_data[c].comp = x /\ ~Busy(c) /\ x \notin completed
            ELSE cb_data[c].comp = None /\ cb_data[c].process = x
        BY <1>5, <3>2, Zenon DEF OneTarget
      <3>4. FALSE
        BY <1>7, <2>2, <3>1, <3>3, ConstantsAssumption
      <3>5. QED
        BY <3>4
    <2>6. CASE t.wait
      <3>1. cb_data'[c].comp = r /\ cb_data[c].comp = r /\ ~Busy(c) /\ r \notin completed'
        BY <1>2, <1>5, <2>2, <2>6
      <3>2. q = <<>> /\ ~engine[c].inflight
        BY <3>1 DEF Busy
      <3>3. d.state = "submitted"
        OBVIOUS
      <3> HIDE DEF d
      <3>4. engine'[c].queue = <<d>> /\ ~engine'[c].inflight
        <4>1. engine'[c].queue = Append(<<>>, d)
          BY <1>6, <1>9, <3>2
        <4>2. QED
          BY <1>6, <1>9, <3>2, <4>1
      <3>5. Single(c)' /\ ~Begun(c)'
        BY <3>3, <3>4 DEF Single, Begun
      <3>6. Awaiting(todo'[r], c)
        BY <1>3, <1>4, <1>9, <2>6
      <3>7. QED
        BY <1>7, <2>4, <2>5, <3>1, <3>5, <3>6, TargetAfter
    <2>7. CASE ~t.wait
      <3>1. cb_data'[c].comp = None /\ cb_data'[c].process = r
        BY <1>5, <2>2, <2>7
      <3>2. lib'[r].stage = "ready"
        BY <1>2 DEF Calling
      <3>3. QED
        BY <2>4, <2>5, <3>1, <3>2, TargetAfter
    <2>8. QED
      BY <2>6, <2>7
  <1>10. QED
    BY <1>8, <1>9

\* A preparation that fails, and a wait that ends without its transfer
LEMMA FailTargets ==
  ASSUME Types, Calling, Targets, NEW r \in Process, Step(r), FailWith(r, "terminate"),
         Doing(r, "prep") \/ Doing(r, "submit") \/ Doing(r, "wait"),
         UNCHANGED <<lib, cb_data, engine, excused>>,
         NEW c \in ChannelId, c \notin excused'
  PROVE  OneTarget(c)'
  <1> DEFINE s == todo[r]
  <1>1. EngineTypes /\ CallTypes
    BY DEF Types
  <1>2. s # <<>>
    BY DEF Doing
  <1>3. OnlyCallOf(r) /\ Failed(r)
    BY <1>1, <1>2, FailedEffect
  <1>4. /\ ~Prepared(todo'[r], c) /\ ~Submits(todo'[r], c)
        /\ Awaiting(todo'[r], Head(s).chan)
        /\ Head(todo'[r]).chan = Head(s).chan
    BY <1>3, FailedCall
  <1>5. OneTarget(c) /\ cb_data'[c] = cb_data[c] /\ engine'[c] = engine[c]
    BY DEF Targets
  <1>6. Head(s) = s[1] /\ 1 \in DOMAIN s
    BY <1>1, <1>2, FirstStep
  <1>7. r # None
    BY ConstantsAssumption
  <1>8. cb_data[c].comp = r /\ Busy(c) =>
          Awaiting(todo'[r], c) /\ (Begun(c) => Head(todo'[r]).chan = c)
    <2> SUFFICES ASSUME cb_data[c].comp = r, Busy(c) PROVE Head(s).chan = c
      BY <1>4
    <2>1. Awaiting(s, c)
      BY <1>5, <1>7, Zenon DEF OneTarget
    <2>2. Head(s).op = "wait"
      BY <1>6, <2>1 DEF Awaiting, Doing
    <2>3. StepShape(s, 1)
      BY <1>6 DEF Calling, CallShape
    <2>4. Len(s) = 1
      BY <1>6, <2>2, <2>3 DEF StepShape
    <2>5. Last(s) = Head(s)
      BY <1>6, <2>4 DEF Last
    <2>6. QED
      BY <2>1, <2>5 DEF Awaiting
  <1>9. QED
    BY <1>4, <1>5, <1>8, StepElsewhere, Zenon

\* A step with which the call returns, having left the channel idle or to others
LEMMA ReturnTargets ==
  ASSUME Types, NEW r \in Process, Step(r), Return(r), UNCHANGED <<lib, cb_data>>,
         NEW c \in ChannelId, OneTarget(c),
         engine'[c] = engine[c] \/ (engine'[c].queue = <<>> /\ ~engine'[c].inflight),
         engine'[c] = engine[c] => ~(cb_data[c].comp = r /\ Busy(c))
  PROVE  OneTarget(c)'
  <1>1. CallTypes
    BY DEF Types
  <1>2. todo'[r] = <<>>
    BY <1>1, Returned
  <1>3. ~Prepared(todo'[r], c) /\ ~Submits(todo'[r], c)
    BY <1>2, EmptyCall
  <1>4. cb_data'[c] = cb_data[c]
    OBVIOUS
  <1>5. CASE engine'[c] = engine[c]
    BY <1>3, <1>4, <1>5, StepElsewhere, Zenon
  <1>6. CASE engine'[c].queue = <<>> /\ ~engine'[c].inflight
    <2>1. ~Busy(c)' /\ Single(c)' /\ ~Begun(c)'
      BY <1>6 DEF Busy, Single, Begun
    <2>2. QED
      BY <1>3, <1>4, <2>1, StepStays, Zenon
  <1>7. QED
    BY <1>5, <1>6

\* A wait that finds its transfer done, and a call that gives up its channel
LEMMA WaitTargets ==
  ASSUME Types, Calling, Targets, NEW r \in Process, WaitDone(r), UNCHANGED lib,
         NEW c \in ChannelId, c \notin excused'
  PROVE  OneTarget(c)'
  <1>1. Step(r) /\ Doing(r, "wait") /\ r \in completed /\ UNCHANGED <<cb_data, engine, excused>>
    BY DEF WaitDone, Step
  <1>2. CASE FailWith(r, "terminate")
    BY <1>1, <1>2, FailTargets
  <1>3. CASE Return(r)
    <2>1. OneTarget(c)
      BY <1>1 DEF Targets
    <2>2. r # None
      BY ConstantsAssumption
    <2>3. ~(cb_data[c].comp = r /\ Busy(c))
      BY <1>1, <2>1, <2>2, Zenon DEF OneTarget
    <2>4. QED
      BY <1>1, <1>3, <2>1, <2>3, ReturnTargets
  <1>4. QED
    BY <1>2, <1>3 DEF WaitDone
LEMMA TerminateTargets ==
  ASSUME Types, Calling, Targets, NEW r \in Process, Terminate(r), UNCHANGED lib,
         NEW c \in ChannelId, c \notin excused'
  PROVE  OneTarget(c)'
  <1> DEFINE s == todo[r]
             e == Head(s).chan
  <1>1. EngineTypes /\ CallTypes
    BY DEF Types
  <1>2. Step(r) /\ Return(r) /\ UNCHANGED cb_data /\ s # <<>> /\ Head(s).op = "terminate"
    BY DEF Terminate, Step, Doing
  <1>3. /\ engine' = [engine EXCEPT ![e] = Terminated(@)]
        /\ excused' = excused \cup (IF engine[e].inflight THEN {e} ELSE {})
    BY DEF Terminate, Terminates
  <1>4. e \in ChannelId /\ Head(s) = s[1] /\ 1 \in DOMAIN s
    BY <1>1, <1>2, FirstStep
  <1>5. /\ engine'[e].queue = <<>> /\ engine'[e].inflight = engine[e].inflight
        /\ \A x \in ChannelId : x # e => engine'[x] = engine[x]
    BY <1>1, <1>3, <1>4, TerminatedEffect, Zenon
  <1>6. OneTarget(c)
    BY <1>3 DEF Targets
  <1>7. CASE c = e
    <2>1. engine'[c].queue = <<>> /\ ~engine[c].inflight /\ engine'[c].inflight = engine[c].inflight
      BY <1>3, <1>5, <1>7
    <2>2. engine'[c] = engine[c] => ~Busy(c)
      BY <2>1 DEF Busy
    <2>3. QED
      BY <1>2, <1>6, <2>1, <2>2, ReturnTargets
  <1>8. CASE c # e
    <2>1. Len(s) = 1
      BY <1>2, <1>4 DEF Calling, CallShape, StepShape
    <2>2. Last(s) = Head(s)
      BY <1>4, <2>1 DEF Last
    <2>3. ~Awaiting(s, c)
      BY <1>8, <2>2 DEF Awaiting
    <2>4. r # None
      BY ConstantsAssumption
    <2>5. ~(cb_data[c].comp = r /\ Busy(c))
      BY <1>6, <2>3, <2>4, Zenon DEF OneTarget
    <2>6. engine'[c] = engine[c]
      BY <1>5, <1>8
    <2>7. QED
      BY <1>2, <1>6, <2>5, <2>6, ReturnTargets
  <1>9. QED
    BY <1>7, <1>8

\* Issuing the transfers of a channel: a call that waits goes on to its wait.
LEMMA IssueTargets ==
  ASSUME Types, Calling, Targets, NEW r \in Process, Issue(r), UNCHANGED lib,
         NEW c \in ChannelId, c \notin excused'
  PROVE  OneTarget(c)'
  <1> DEFINE s == todo[r]
             t == Head(s)
             q == engine[c].queue
  <1>1. EngineTypes /\ CallTypes
    BY DEF Types
  <1>2. s # <<>> /\ t.op = "issue" /\ UNCHANGED <<cb_data, excused>> /\ Step(r)
    BY DEF Issue, Doing, Step
  <1>3. t.chan \in ChannelId /\ t = s[1] /\ 1 \in DOMAIN s /\ DOMAIN s = 1 .. Len(s)
    BY <1>1, <1>2, FirstStep
  <1>4. /\ Prepared(Tail(s), c) => Prepared(s, c)
        /\ ~Submits(Tail(s), c)
        /\ Awaiting(s, c) /\ Len(s) # 1 => Awaiting(Tail(s), c)
    BY <1>2, <1>3, RestOfCall
  <1>5. OneTarget(c) /\ cb_data'[c] = cb_data[c]
    BY <1>2 DEF Targets
  <1>6. \/ Len(s) = 1 /\ todo'[r] = <<>>
        \/ Len(s) # 1 /\ todo'[r] = Tail(s)
    BY <1>1, <1>2, Returned, Advanced DEF Issue
  <1>7. (Prepared(todo'[r], c) => Prepared(s, c)) /\ ~Submits(todo'[r], c)
    BY <1>4, <1>6, EmptyCall
  <1>8. StepShape(s, 1)
    BY <1>3 DEF Calling, CallShape
  <1>9. r # None
    BY ConstantsAssumption
  <1>10. Awaiting(s, c) => /\ Len(s) # 1 /\ Awaiting(todo'[r], c)
                           /\ t.chan = c => Head(todo'[r]).chan = c
    <2> SUFFICES ASSUME Awaiting(s, c)
                 PROVE  /\ Len(s) # 1 /\ Awaiting(todo'[r], c)
                        /\ t.chan = c => Head(todo'[r]).chan = c
      OBVIOUS
    <2>1. Last(s).op \in {"wait", "terminate"} /\ Last(s).chan = c
      BY DEF Awaiting
    <2>2. Last(s) = s[Len(s)]
      BY DEF Last
    <2>3. Len(s) # 1
      BY <1>2, <1>3, <2>1, <2>2
    <2>4. Len(s) \in DOMAIN s
      BY <1>1, <1>2, FirstStep
    <2>5. Last(s).op = "wait"
      <3>1. StepShape(s, Len(s))
        BY <2>4 DEF Calling, CallShape
      <3>2. QED
        BY <2>1, <2>2, <2>3, <3>1 DEF StepShape
    <2>6. t.chan = c => s[1 + 1].chan = c
      BY <1>2, <1>3, <1>8, <2>1, <2>5 DEF StepShape
    <2>7. Head(Tail(s)) = s[1 + 1]
      <3>1. s \in Seq(CallStep)
        BY <1>1, Fields
      <3>2. Len(s) \in Nat /\ Len(s) > 0
        BY <1>1, <1>2, FirstStep
      <3>3. Len(s) > 1
        <4>1. \A n \in Nat : n > 0 /\ n # 1 => n > 1
          OBVIOUS
        <4>2. QED
          BY <2>3, <3>2, <4>1, Zenon
      <3>4. \A x \in Seq(CallStep) : Len(x) > 1 => Head(Tail(x)) = x[1 + 1]
        OBVIOUS
      <3>5. QED
        BY <3>1, <3>3, <3>4, Zenon
    <2>8. QED
      BY <1>4, <1>6, <2>3, <2>6, <2>7
  <1>11. cb_data[c].comp = r /\ Busy(c) => Awaiting(s, c)
    BY <1>5, <1>9, Zenon DEF OneTarget
  <1>12. /\ engine'[t.chan].queue = Started(engine[t.chan].queue)
         /\ engine'[t.chan].inflight = engine[t.chan].inflight
         /\ \A x \in ChannelId : x # t.chan => engine'[x] = engine[x]
    BY <1>1, IssueEffect, Zenon
  <1>13. CASE t.chan # c
    <2>1. engine'[c] = engine[c]
      BY <1>12, <1>13
    <2>2. cb_data[c].comp = r /\ Busy(c) => ~Begun(c)
      <3> SUFFICES ASSUME cb_data[c].comp = r, Begun(c) PROVE FALSE
        OBVIOUS
      <3>1. Head(s).chan = c
        BY <1>5, <1>9, Zenon DEF OneTarget
      <3>2. QED
        BY <1>13, <3>1
    <2>3. QED
      BY <1>2, <1>5, <1>7, <1>10, <1>11, <2>1, <2>2, StepElsewhere, Zenon
  <1>14. CASE t.chan = c
    <2>1. engine'[c].queue = Started(q) /\ engine'[c].inflight = engine[c].inflight
      BY <1>12, <1>14
    <2>2. /\ engine'[c].queue \in Seq(Descriptor) /\ q \in Seq(Descriptor)
          /\ Len(engine'[c].queue) = Len(q)
      BY <1>1, <1>14, IssueEffect, Fields
    <2>3. engine'[c].queue = <<>> <=> q = <<>>
      BY <2>2
    <2>4. (Busy(c)' <=> Busy(c)) /\ (Single(c)' <=> Single(c)) /\ (Begun(c)' => Busy(c)')
      BY <2>1, <2>2, <2>3 DEF Busy, Single, Begun
    <2>5. Prepared(s, c)
      BY <1>2, <1>3, <1>14 DEF Prepared
    <2>6. cb_data[c].comp = r \/ cb_data[c].comp = None
      BY <1>5, <2>5, Zenon DEF OneTarget
    <2>7. cb_data[c].comp # None => Single(c)'
      BY <1>5, <2>4, Zenon DEF OneTarget
    <2>8. cb_data[c].comp = r /\ Busy(c)' => Awaiting(todo'[r], c)
      BY <1>10, <1>11, <2>4
    <2>9. cb_data[c].comp = r /\ Begun(c)' => Head(todo'[r]).chan = c
      BY <1>10, <1>11, <1>14, <2>4
    <2>10. QED
      BY <1>2, <1>5, <1>7, <2>4, <2>6, <2>7, <2>8, <2>9, StepStays, Zenon
  <1>15. QED
    BY <1>13, <1>14

\* The steps of a call
LEMMA StepTargets ==
  ASSUME Types, Calling, Targets, NEW r \in Process, Step(r), UNCHANGED lib,
         NEW c \in ChannelId, c \notin excused'
  PROVE  OneTarget(c)'
  <1>1. CASE PrepareFails(r) \/ WaitTimeout(r)
    <2>1. /\ FailWith(r, "terminate")
          /\ Doing(r, "prep") \/ Doing(r, "submit") \/ Doing(r, "wait")
          /\ UNCHANGED <<lib, cb_data, engine, excused>>
      BY <1>1 DEF PrepareFails, WaitTimeout, historyVars
    <2>2. QED
      BY <2>1, FailTargets
  <1>2. QED
    BY <1>1, PrepTargets, SubmitTargets, IssueTargets, WaitTargets, TerminateTargets, Zenon
       DEF Step

\* The other steps of a process
LEMMA ProcessTargets ==
  ASSUME Types, Calling, Targets, NEW r \in Process, ProcessStep(r),
         NEW c \in ChannelId, c \notin excused'
  PROVE  OneTarget(c)'
  <1> DEFINE p == cb_data[c].comp
  <1>1. EngineTypes /\ CallTypes
    BY DEF Types
  <1>2. ASSUME OneTarget(c), UNCHANGED <<cb_data, completed, todo>>, engine'[c] = engine[c],
               p = None /\ Busy(c) => lib'[cb_data[c].process].stage = "ready"
        PROVE  OneTarget(c)'
    <2>1. (Busy(c)' <=> Busy(c)) /\ (Single(c)' <=> Single(c)) /\ (Begun(c)' <=> Begun(c))
      BY <1>2, SameEntry
    <2>2. QED
      BY <1>2, <2>1, Zenon DEF OneTarget
  <1>3. CASE axidma_init_dev(r)
    <2>1. /\ UNCHANGED <<cb_data, completed, todo, engine, excused>>
          /\ lib' = [lib EXCEPT ![r] = [stage |-> "ready", ids |-> Categorized]]
      BY <1>3 DEF axidma_init_dev, dmaVars, callVars, historyVars
    <2>2. OneTarget(c)
      BY <2>1 DEF Targets
    <2>3. p = None /\ Busy(c) =>
            cb_data[c].process \in Process /\ lib[cb_data[c].process].stage = "ready"
      BY <2>2, Zenon DEF OneTarget
    <2>4. p = None /\ Busy(c) => lib'[cb_data[c].process].stage = "ready"
      BY <1>1, <2>1, <2>3 DEF CallTypes
    <2>5. QED
      BY <1>2, <2>1, <2>2, <2>4
  <1>4. ASSUME NEW stage, Leaves(r, stage) PROVE OneTarget(c)'
    <2>1. /\ UNCHANGED <<cb_data, completed, todo, engine>>
          /\ lib' = [lib EXCEPT ![r] = [stage |-> stage, ids |-> NoIds]]
          /\ excused' = excused \cup {d \in ChannelId : cb_data[d].process = r /\ Busy(d)}
      BY <1>4 DEF Leaves, callVars
    <2>2. OneTarget(c) /\ ~(cb_data[c].process = r /\ Busy(c))
      BY <2>1 DEF Targets
    <2>3. p = None /\ Busy(c) =>
            cb_data[c].process \in Process /\ lib[cb_data[c].process].stage = "ready"
      BY <2>2, Zenon DEF OneTarget
    <2>4. p = None /\ Busy(c) => lib'[cb_data[c].process].stage = "ready"
      BY <1>1, <2>1, <2>2, <2>3 DEF CallTypes
    <2>5. QED
      BY <1>2, <2>1, <2>2, <2>4
  <1>5. CASE \/ \E a \in Address, m \in Memory : axidma_malloc(r, a, m)
             \/ \E a \in Address : axidma_free(r, a)
             \/ \E a \in Address, x \in Exported : axidma_register_buffer(r, a, x)
    <2>1. UNCHANGED <<cb_data, completed, todo, engine, excused, lib>>
      BY <1>5 DEF axidma_malloc, axidma_mmap, axidma_free, axidma_vma_close,
                  axidma_register_buffer, axidma_get_external, callVars
    <2>2. OneTarget(c)
      BY <2>1 DEF Targets
    <2>3. p = None /\ Busy(c) => lib'[cb_data[c].process].stage = "ready"
      BY <2>1, <2>2, Zenon DEF OneTarget
    <2>4. QED
      BY <1>2, <2>1, <2>2, <2>3
  <1>6. CASE Called(r) /\ UNCHANGED lib
    <2>1. PICK s : Program(s) /\ todo[r] = <<>> /\ Begin(r, s)
      BY <1>6 DEF Called, Opened
    <2>2. /\ UNCHANGED <<cb_data, completed, engine, excused, lib>>
          /\ todo' = [todo EXCEPT ![r] = s]
      BY <1>6, <2>1 DEF Begin
    <2>3. todo'[r] = s /\ \A x \in Process : x # r => todo'[x] = todo[x]
      BY <1>1, <2>2 DEF CallTypes
    <2>4. OneTarget(c) /\ cb_data'[c] = cb_data[c] /\ engine'[c] = engine[c]
      BY <2>2 DEF Targets
    <2>5. ~Prepared(s, c) /\ ~Submits(s, c)
      BY <2>1 DEF Program, Submits
    <2>6. (Busy(c)' <=> Busy(c)) /\ (Single(c)' <=> Single(c)) /\ (Begun(c)' <=> Begun(c))
      BY <2>4, SameEntry
    <2>7. p # None => p \in Process
      BY <1>1 DEF EngineTypes, CallbackRecord
    <2>8. p # None /\ Busy(c) => p # r /\ Awaiting(todo[p], c) /\ p \notin completed
      <3>1. p # None /\ Busy(c) => Awaiting(todo[p], c) /\ p \notin completed
        BY <2>4, Zenon DEF OneTarget
      <3>2. QED
        BY <2>1, <3>1 DEF Awaiting
    <2>9. p # None /\ Begun(c) => Busy(c) /\ Head(todo[p]).chan = c
      <3>1. Begun(c) => Busy(c)
        BY DEF Begun, Busy
      <3>2. QED
        BY <2>4, <3>1, Zenon DEF OneTarget
    <2>10. p # None => Single(c)
      BY <2>4, Zenon DEF OneTarget
    <2>11. p # None /\ Busy(c)' => Awaiting(todo'[p], c) /\ p \notin completed'
      BY <2>2, <2>3, <2>6, <2>7, <2>8
    <2>12. p # None /\ Begun(c)' => Head(todo'[p]).chan = c
      BY <2>3, <2>6, <2>7, <2>8, <2>9
    <2>13. p = None /\ Busy(c)' => lib'[cb_data[c].process].stage = "ready"
      BY <2>2, <2>4, <2>6, Zenon DEF OneTarget
    <2>14. \A x \in Process : Prepared(todo'[x], c) => Prepared(todo[x], c)
      BY <2>3, <2>5
    <2>15. \A x \in Process : Submits(todo'[x], c) =>
             todo'[x] = todo[x] /\ (x \notin completed => x \notin completed')
      BY <2>2, <2>3, <2>5
    <2> HIDE DEF p
    <2>16. QED
      BY <2>4, <2>6, <2>10, <2>11, <2>12, <2>13, <2>14, <2>15, TargetStays, Zenon DEF p
  <1>7. ASSUME NEW d \in ChannelId, axidma_stop_transfer(r, d) PROVE OneTarget(c)'
    <2>1. /\ UNCHANGED <<cb_data, completed, todo, lib>>
          /\ engine' = [engine EXCEPT ![d] = Terminated(@)]
          /\ excused' = excused \cup (IF engine[d].inflight THEN {d} ELSE {})
      BY <1>7 DEF axidma_stop_transfer, StopChannel, Terminates, callVars
    <2>2. OneTarget(c)
      BY <2>1 DEF Targets
    <2>3. /\ engine'[d].queue = <<>> /\ engine'[d].inflight = engine[d].inflight
          /\ \A x \in ChannelId : x # d => engine'[x] = engine[x]
      BY <1>1, <2>1, TerminatedEffect, Zenon
    <2>4. CASE d # c
      <3>1. p = None /\ Busy(c) => lib'[cb_data[c].process].stage = "ready"
        BY <2>1, <2>2, Zenon DEF OneTarget
      <3>2. QED
        BY <1>2, <2>1, <2>2, <2>3, <2>4, <3>1
    <2>5. CASE d = c
      <3>1. engine'[c].queue = <<>> /\ ~engine'[c].inflight
        BY <2>1, <2>3, <2>5
      <3>2. ~Busy(c)' /\ Single(c)' /\ ~Begun(c)'
        BY <3>1 DEF Busy, Single, Begun
      <3>3. QED
        BY <2>1, <2>2, <3>2, TargetStays
    <2>6. QED
      BY <2>4, <2>5
  <1>8. QED
    BY <1>3, <1>4, <1>5, <1>6, <1>7, StepTargets, Zenon DEF ProcessStep

\* The hardware finishes a transfer, or the tasklet takes it off.
LEMMA HardwareTargets ==
  ASSUME Types, Targets, NEW d \in ChannelId, Finish(d) \/ TakeCallback(d), UNCHANGED lib,
         NEW c \in ChannelId, c \notin excused'
  PROVE  OneTarget(c)'
  <1> DEFINE p == cb_data[c].comp
             q == engine[c].queue
  <1>1. EngineTypes /\ CallTypes
    BY DEF Types
  <1>2. UNCHANGED <<cb_data, todo, completed, lib, excused>>
    BY DEF Finish, TakeCallback, callVars, historyVars
  <1>3. OneTarget(c) /\ cb_data'[c] = cb_data[c]
    BY <1>2 DEF Targets
  <1>4. p = None /\ Busy(c) => lib[cb_data[c].process].stage = "ready"
    BY <1>3, Zenon DEF OneTarget
  <1>5. /\ p # None /\ Busy(c) => Awaiting(todo[p], c) /\ p \notin completed
        /\ p # None /\ Begun(c) => Head(todo[p]).chan = c
        /\ p # None => Single(c)
    BY <1>3, Zenon DEF OneTarget
  <1>6. ASSUME Busy(c)' => Busy(c), p # None => Single(c)', p # None /\ Begun(c)' => Begun(c)
        PROVE  OneTarget(c)'
    <2>1. p # None /\ Busy(c)' => Awaiting(todo'[p], c) /\ p \notin completed'
      BY <1>2, <1>5, <1>6
    <2>2. p # None /\ Begun(c)' => Head(todo'[p]).chan = c
      BY <1>2, <1>5, <1>6
    <2>3. p = None /\ Busy(c)' => lib'[cb_data[c].process].stage = "ready"
      BY <1>2, <1>4, <1>6
    <2>4. /\ \A r \in Process : Prepared(todo'[r], c) => Prepared(todo[r], c)
          /\ \A r \in Process : Submits(todo'[r], c) =>
               todo'[r] = todo[r] /\ (r \notin completed => r \notin completed')
      BY <1>2
    <2> HIDE DEF p
    <2>5. QED
      BY <1>3, <1>6, <2>1, <2>2, <2>3, <2>4, TargetStays, Zenon DEF p
  <1>7. CASE engine'[c] = engine[c]
    BY <1>5, <1>6, <1>7, SameEntry
  <1>8. CASE d # c
    BY <1>1, <1>7, <1>8, FinishEffect, TakeEffect
  <1>9. CASE d = c /\ Finish(c)
    <2>1. PICK i \in DOMAIN q :
            /\ q[i].state = "issued"
            /\ engine'[c].queue = [q EXCEPT ![i] = [@ EXCEPT !.state = "done"]]
            /\ engine'[c].inflight = engine[c].inflight
      BY <1>1, <1>9, FinishEffect, Zenon
    <2>2. q \in Seq(Descriptor)
      BY <1>1, Fields
    <2>3. Len(engine'[c].queue) = Len(q) /\ engine'[c].queue # <<>> /\ q # <<>>
      BY <2>1, <2>2
    <2>4. Busy(c) /\ Begun(c) /\ (Single(c)' <=> Single(c))
      BY <2>1, <2>3 DEF Busy, Begun, Single
    <2>5. QED
      BY <1>5, <1>6, <2>4
  <1>10. CASE d = c /\ TakeCallback(c)
    <2>1. /\ q # <<>> /\ q[1].state = "done" /\ ~engine[c].inflight
          /\ engine'[c].queue = Tail(q) /\ engine'[c].inflight
      BY <1>1, <1>10, TakeEffect, Zenon
    <2>2. q \in Seq(Descriptor) /\ 1 \in DOMAIN q
      <3>1. q \in Seq(Descriptor)
        BY <1>1, Fields
      <3>2. QED
        BY <2>1, <3>1
    <2>3. Busy(c) /\ Begun(c)
      BY <2>1, <2>2 DEF Busy, Begun
    <2>4. Single(c) => Single(c)'
      <3>1. Len(q) <= 1 => Tail(q) = <<>>
        BY <2>1, <2>2
      <3>2. Tail(q) = <<>> => Len(Tail(q)) <= 1
        OBVIOUS
      <3>3. QED
        BY <2>1, <3>1, <3>2 DEF Single
    <2>5. QED
      BY <1>5, <1>6, <2>3, <2>4
  <1>11. QED
    BY <1>8, <1>9, <1>10

\* A callback runs: whom it wakes is nobody that another channel is to wake, unless
\* that channel is excused with it.
LEMMA CallbackTargets ==
  ASSUME Types, Targets, NEW d \in ChannelId, Callback(d), UNCHANGED lib,
         NEW c \in ChannelId, c \notin excused'
  PROVE  OneTarget(c)'
  <1> DEFINE p == cb_data[c].comp
             w == cb_data[d].comp
             Wakes == w \in Process /\ todo[w] # <<>>
  <1>1. EngineTypes /\ CallTypes
    BY DEF Types
  <1>2. /\ UNCHANGED <<cb_data, todo, lib>>
        /\ Wakes => /\ completed' = completed \cup {w}
                    /\ excused' = excused \cup (IF d \in excused THEN {todo[w][i].chan : i \in DOMAIN todo[w]}
                                                ELSE {})
        /\ ~Wakes => UNCHANGED <<completed, excused>>
    BY DEF Callback
  <1> HIDE DEF Wakes
  <1>3. OneTarget(c) /\ c \notin excused
    BY <1>2 DEF Targets
  <1>4. /\ engine[d].inflight /\ ~engine'[d].inflight
        /\ engine'[d].queue = engine[d].queue
        /\ \A x \in ChannelId : x # d => engine'[x] = engine[x]
    BY <1>1, CallbackEffect
  <1>5. /\ p # None /\ Busy(c) => Awaiting(todo[p], c) /\ p \notin completed
        /\ p # None /\ Begun(c) => Head(todo[p]).chan = c
        /\ p # None => Single(c)
        /\ p = None /\ Busy(c) => lib[cb_data[c].process].stage = "ready"
    BY <1>3, Zenon DEF OneTarget
  <1>6. p # None => p \in Process
    BY <1>1 DEF EngineTypes, CallbackRecord
  <1>7. CASE d = c
    <2>1. p # None => ~Busy(c)' /\ Single(c)' /\ ~Begun(c)'
      <3> SUFFICES ASSUME p # None PROVE ~Busy(c)' /\ Single(c)' /\ ~Begun(c)'
        OBVIOUS
      <3>1. engine[c].queue = <<>>
        BY <1>4, <1>5, <1>7 DEF Single
      <3>2. engine'[c].queue = <<>> /\ ~engine'[c].inflight
        BY <1>4, <1>7, <3>1
      <3>3. QED
        BY <3>2 DEF Busy, Single, Begun
    <2>2. Busy(c)
      BY <1>4, <1>7 DEF Busy
    <2>3. p = None => completed' = completed
      <3>1. None \notin Process
        BY ConstantsAssumption
      <3>2. QED
        BY <1>2, <1>7, <3>1 DEF Wakes
    <2>4. \A r \in Process : Submits(todo'[r], c) =>
             todo'[r] = todo[r] /\ (r \notin completed => r \notin completed')
      <3> SUFFICES ASSUME NEW r \in Process, Submits(todo[r], c), p # None PROVE FALSE
        BY <1>2, <2>3
      <3>1. Head(todo[r]).wait
        BY <1>3, Zenon DEF OneTarget
      <3>2. QED
        BY <1>3, <2>2, <3>1, Zenon DEF OneTarget
    <2>5. p = None /\ Busy(c)' => lib'[cb_data[c].process].stage = "ready"
      BY <1>2, <1>5, <2>2
    <2>6. \A r \in Process : Prepared(todo'[r], c) => Prepared(todo[r], c)
      BY <1>2
    <2>7. cb_data'[c] = cb_data[c]
      BY <1>2
    <2> HIDE DEF p
    <2>8. QED
      BY <1>3, <2>1, <2>2, <2>4, <2>5, <2>6, <2>7, TargetStays, Zenon DEF p
  <1>8. CASE d # c
    <2>1. engine'[c] = engine[c] /\ cb_data'[c] = cb_data[c]
      BY <1>2, <1>4, <1>8
    <2>2. (Busy(c)' <=> Busy(c)) /\ (Single(c)' <=> Single(c)) /\ (Begun(c)' <=> Begun(c))
      BY <2>1, SameEntry
    <2>3. ASSUME Wakes, NEW i \in DOMAIN todo[w], todo[w][i].chan = c,
                 i = Len(todo[w]) \/ todo[w][i].op = "submit"
          PROVE  FALSE
      <3>1. d \notin excused
        BY <1>2, <2>3
      <3>2. OneTarget(d) /\ Busy(d) /\ w # None
        BY <1>4, <2>3, <3>1, ConstantsAssumption DEF Targets, Busy, Wakes
      <3>3. Awaiting(todo[w], d)
        BY <3>2, Zenon DEF OneTarget
      <3>4. Last(todo[w]).chan = d /\ todo[w][i].op # "submit"
        BY <3>3 DEF Awaiting
      <3>5. QED
        BY <1>8, <2>3, <3>4 DEF Last
    <2>4. p # None /\ Busy(c)' => Awaiting(todo'[p], c) /\ p \notin completed'
      <3> SUFFICES ASSUME p # None, Busy(c) PROVE Awaiting(todo'[p], c) /\ p \notin completed'
        BY <2>2
      <3>1. Awaiting(todo[p], c) /\ p \notin completed
        BY <1>5
      <3>2. ASSUME Wakes, w = p PROVE FALSE
        <4>1. todo[p] \in Seq(CallStep) /\ todo[p] # <<>>
          BY <1>1, <1>6, <3>2, Fields DEF Wakes
        <4>2. Len(todo[p]) \in DOMAIN todo[p] /\ Last(todo[p]) = todo[p][Len(todo[p])]
          BY <4>1 DEF Last
        <4>3. todo[p][Len(todo[p])].chan = c
          BY <3>1, <4>2 DEF Awaiting
        <4>4. QED
          BY <2>3, <3>2, <4>2, <4>3
      <3>3. QED
        BY <1>2, <3>1, <3>2
    <2>5. ASSUME NEW r \in Process, Submits(todo'[r], c), r \notin completed
          PROVE  r \notin completed'
      <3>1. todo[r] # <<>> /\ Head(todo[r]).op = "submit" /\ Head(todo[r]).chan = c
        BY <1>2, <2>5 DEF Submits
      <3>2. 1 \in DOMAIN todo[r] /\ Head(todo[r]) = todo[r][1]
        BY <1>1, <3>1, FirstStep
      <3>3. ~(Wakes /\ w = r)
        BY <2>3, <3>1, <3>2
      <3>4. QED
        BY <1>2, <2>5, <3>3
    <2>6. \A r \in Process : Submits(todo'[r], c) =>
            todo'[r] = todo[r] /\ (r \notin completed => r \notin completed')
      BY <1>2, <2>5
    <2>7. p # None /\ Begun(c)' => Head(todo'[p]).chan = c
      BY <1>2, <1>5, <2>2
    <2>8. p = None /\ Busy(c)' => lib'[cb_data[c].process].stage = "ready"
      BY <1>2, <1>5, <2>2
    <2>9. p # None => Single(c)'
      BY <1>5, <2>2
    <2>10. \A r \in Process : Prepared(todo'[r], c) => Prepared(todo[r], c)
      BY <1>2
    <2> HIDE DEF p
    <2>11. QED
      BY <1>3, <2>1, <2>2, <2>4, <2>6, <2>7, <2>8, <2>9, <2>10, TargetStays, Zenon DEF p
  <1>9. QED
    BY <1>7, <1>8

\* Probe, and the removal of the driver
LEMMA LifeTargets ==
  ASSUME Types, Calling, Targets, LibNext, Life, UNCHANGED lib,
         NEW c \in ChannelId, c \notin excused'
  PROVE  OneTarget(c)'
  <1>1. CASE ProbeStep \/ ProbeFails
    <2>1. UNCHANGED <<cb_data, todo, completed, engine, excused>>
      BY <1>1 DEF ProbeStep, ProbeFails, callVars, historyVars
    <2>2. OneTarget(c)
      BY <2>1 DEF Targets
    <2>3. (Busy(c)' <=> Busy(c)) /\ (Single(c)' <=> Single(c)) /\ (Begun(c)' <=> Begun(c))
      BY <2>1, SameEntry
    <2>4. QED
      BY <2>1, <2>2, <2>3, Zenon DEF OneTarget
  <1>2. CASE axidma_remove
    <2>1. /\ UNCHANGED <<cb_data, todo, completed>>
          /\ engine' = [d \in ChannelId |-> Terminated(engine[d])]
          /\ excused' = excused \cup {d \in ChannelId : engine[d].inflight}
      BY <1>2 DEF axidma_remove, callVars
    <2>2. OneTarget(c) /\ ~engine[c].inflight
      BY <2>1 DEF Targets
    <2>3. engine'[c].queue = <<>> /\ ~engine'[c].inflight
      BY <2>1, <2>2, RemovedEffect DEF Types
    <2>4. ~Busy(c)' /\ Single(c)' /\ ~Begun(c)'
      BY <2>3 DEF Busy, Single, Begun
    <2>5. QED
      BY <2>1, <2>2, <2>4, TargetStays
  <1>3. QED
    BY <1>1, <1>2 DEF Life

\* Every step keeps the targets.
LEMMA TargetsNext ==
  ASSUME Types, Calling, Targets, LibNext
  PROVE  Targets'
  <1> SUFFICES ASSUME NEW c \in ChannelId, c \notin excused' PROVE OneTarget(c)'
    BY Zenon DEF Targets
  <1>1. QED
    BY HardwareTargets, CallbackTargets, LifeTargets, ProcessTargets, Steps, Zenon

\* axidma_dma_callback wakes a call that still waits on the channel, or signals a process
\* that has the device open - unless transfers of the channel overlap, the process has
\* left, or the channel was terminated while the callback ran.
THEOREM CallbacksHaveTargets == LibSpec => []CallbackTargetAlive
  <1>1. LibInit => Targets
    <2> SUFFICES ASSUME LibInit, NEW c \in ChannelId PROVE OneTarget(c)
      BY DEF Targets
    <2>1. /\ engine[c].queue = <<>> /\ ~engine[c].inflight
          /\ \A p \in Process : todo[p] = <<>>
      BY DEF LibInit, DmaInit, Idle
    <2>2. ~Busy(c) /\ Single(c) /\ ~Begun(c)
      BY <2>1 DEF Busy, Single, Begun
    <2>3. \A p \in Process : ~Prepared(todo[p], c) /\ ~Submits(todo[p], c)
      BY <2>1, EmptyCall
    <2>4. QED
      BY <2>2, <2>3, Zenon DEF OneTarget
  <1>2. Base /\ Targets /\ [LibNext]_libVars => Targets'
    <2> SUFFICES ASSUME Base, Targets, [LibNext]_libVars PROVE Targets'
      OBVIOUS
    <2>1. CASE LibNext
      BY <2>1, TargetsNext, Zenon DEF Base
    <2>2. CASE UNCHANGED libVars
      <3>1. UNCHANGED <<cb_data, engine, todo, completed, excused, lib>>
        BY <2>2 DEF libVars, dmaVars, callVars, historyVars
      <3>2. QED
        BY <3>1 DEF Targets, OneTarget, Busy, Single, Begun
    <2>3. QED
      BY <2>1, <2>2
  <1>3. Base /\ Targets => CallbackTargetAlive
    <2> SUFFICES ASSUME Targets, NEW c \in ChannelId, engine[c].inflight, c \notin excused
                 PROVE  IF cb_data[c].comp # None
                        THEN todo[cb_data[c].comp] # <<>> /\ Head(todo[cb_data[c].comp]).chan = c
                        ELSE lib[cb_data[c].process].stage = "ready"
      BY DEF CallbackTargetAlive
    <2>1. OneTarget(c) /\ Busy(c) /\ Begun(c)
      BY DEF Targets, Busy, Begun
    <2>2. cb_data[c].comp # None => Awaiting(todo[cb_data[c].comp], c) /\ Head(todo[cb_data[c].comp]).chan = c
      BY <2>1, Zenon DEF OneTarget
    <2>3. cb_data[c].comp = None => lib[cb_data[c].process].stage = "ready"
      BY <2>1, Zenon DEF OneTarget
    <2>4. QED
      BY <2>2, <2>3 DEF Awaiting
  <1>4. QED
    BY <1>1, <1>2, <1>3, BaseInvariant, PTL DEF LibSpec

================================================================================
