---------------------------- MODULE RxBuf_proofs ----------------------------
(***************************************************************************)
(* The receive ring and its buffers implement RxChannel, for any lengths of *)
(* the ring, sizes of packets and number of buffers, while the ring changes *)
(* its length.                                                              *)
(***************************************************************************)
EXTENDS RxBuf, SequenceTheorems, TLAPS

-----------------------------------------------------------------------------
(* The ring                                                                 *)

Pos == [a : Nat, wrap : BOOLEAN]

\* In a ring of e cells: where the packet after address a begins, and the cell at
\* distance x of cell 0.
From(e, a)  == IF e - a < Desc THEN 0 ELSE a
Cell(e, x)  == IF x < e THEN x ELSE x - e
After(e, x) == IF x <= e THEN x ELSE x - e

\* The n-th packet is in the ring mm between addresses a and next.
Packet(mm, e, a, n, next) ==
    LET p == mm[From(e, a)].pkt IN
    /\ p.n = n /\ p.next = next
    /\ p.size \in Desc..(SmallEnd - Desc)
    /\ next = After(e, From(e, a) + p.size)
    /\ \A k \in 0..(p.size - 1) : mm[Cell(e, From(e, a) + k)] = [pkt |-> p, k |-> k]

\* Position p is at most one lap after lo; Before: q comes after p, on that lap.
Lap(e, lo, p) ==
    /\ lo \in Pos /\ p \in Pos /\ lo.a <= e /\ p.a <= e
    /\ p.wrap = lo.wrap => lo.a <= p.a
    /\ p.wrap # lo.wrap => /\ 0 < p.a /\ p.a <= lo.a
                           /\ ~(e - lo.a < Desc /\ e - p.a < Desc)

Before(lo, p, q) ==
    /\ p.wrap = q.wrap => p.a + Desc <= q.a
    /\ p.wrap # lo.wrap => q.wrap # lo.wrap

\* The packets m + 1 to s are in the ring one after the other, the n-th at pos[n].
\* They fill at most one lap of it.
Chain(mm, e, pos, m, s) ==
    /\ m \in Nat /\ s \in Nat /\ m <= s
    /\ pos \in [(m + 1)..(s + 1) -> Pos]
    /\ \A n \in (m + 1)..s : /\ Packet(mm, e, pos[n].a, n, pos[n + 1].a)
                             /\ pos[n + 1] = Advance(pos[n], pos[n + 1].a)
    /\ \A n \in (m + 1)..(s + 1) : Lap(e, pos[m + 1], pos[n])
    /\ \A i, j \in (m + 1)..(s + 1) : i < j => Before(pos[m + 1], pos[i], pos[j])

-----------------------------------------------------------------------------
(* The buffers                                                              *)

\* From index i and address last on, the data of a buffer are the packets A + 1 to B.
Follows(d, first, end, ix, la, A, B) ==
    /\ A \in Nat /\ B \in Nat /\ A <= B /\ end \in Nat /\ Len(d) \in Nat
    /\ ix \in [(A + 1)..(B + 1) -> Nat] /\ la \in [(A + 1)..(B + 1) -> Nat]
    /\ ix[B + 1] >= Len(d)
    /\ \A n \in (A + 1)..B :
          LET p == d[ix[n] + 1].pkt IN
          /\ ix[n] < Len(d) /\ IsPacket(d, ix[n])
          /\ p.n = n /\ p.next \in 0..end
          /\ la[n + 1] = NextPos(p.next, end)
          /\ ix[n + 1] = IF la[n + 1] > la[n] THEN ix[n] + la[n + 1] - la[n]
                         ELSE first + la[n + 1]

Walk(r, i, last, A, B) ==
    \E ix, la : /\ Follows(r.data, r.first, r.end, ix, la, A, B)
                /\ ix[A + 1] = i /\ la[A + 1] = last

\* c[0] is the last packet of the buffer that is walked, c[j] that of the j-th in
\* the list of used buffers, m the last one that was read.
Queue(c, m) ==
    /\ c \in [0..Len(usedList) -> Nat] /\ c[Len(usedList)] = m
    /\ \A j \in 0..Len(usedList) : c[j] <= m
    /\ IF cur = NoBuf THEN c[0] = Len(handled)
       ELSE Walk(buf[cur.b], cur.i, cur.last, Len(handled), c[0])
    /\ \A j \in 1..Len(usedList) :
          Walk(buf[usedList[j]], 0, buf[usedList[j]].start, c[j - 1], c[j])

\* Where the host and the firmware are in the ring
Places(pos, m) ==
    /\ Chain(mem, fwEnd, pos, m, sent)
    /\ pos[m + 1] = bufPos /\ pos[sent + 1] = fwPos /\ reg.pos = fwPos
    /\ \E r \in m..sent : newPos = pos[r + 1] /\ (irq => r < sent)
    /\ ~pending => newPos = bufPos

\* Each buffer is in one place
Lists ==
    /\ freeList \in Seq(Bufs) /\ usedList \in Seq(Bufs)
    /\ \A i, j \in DOMAIN freeList : freeList[i] = freeList[j] => i = j
    /\ \A i, j \in DOMAIN usedList : usedList[i] = usedList[j] => i = j
    /\ \A i \in DOMAIN freeList, j \in DOMAIN usedList : freeList[i] # usedList[j]
    /\ cur # NoBuf => /\ cur.b \in Bufs
                      /\ \A i \in DOMAIN freeList : freeList[i] # cur.b
                      /\ \A i \in DOMAIN usedList : usedList[i] # cur.b

AllEnd(e) == \A b \in Bufs : buf[b].end = e

\* What both sides know in each phase of the exchange
Geometry ==
    /\ phase \in {"large", "narrowing", "narrowed", "small", "expanding", "expanded"}
    /\ fwEnd = IF phase \in {"narrowed", "small", "expanding"} THEN SmallEnd ELSE LargeEnd
    /\ phase \notin {"narrowed", "expanded"} => rxEnd = fwEnd
    /\ phase = "large" => bufState = {"FW_EXPAND"} /\ reg.status = "FW_EXPAND"
    /\ phase = "narrowing" =>
          /\ AllEnd(fwEnd) /\ reg.status = "FW_NARROW"
          /\ \/ irq /\ bufState = {"FW_EXPAND"}
             \/ /\ pending /\ newPos = fwPos /\ newPos # bufPos
                /\ bufState = {"FW_NARROW", "NARROW"}
    /\ phase = "narrowed" => /\ bufState = {"FW_NARROW", "NARROW", "UPDATE"}
                             /\ reg.status \in {"FW_NARROW", "NONE"}
    /\ phase = "small" => bufState = {"FW_NARROW"} /\ reg.status \in {"FW_NARROW", "NONE"}
    /\ phase = "expanding" =>
          /\ AllEnd(fwEnd) /\ reg.status = "FW_EXPAND"
          /\ \/ irq /\ bufState = {"FW_NARROW"}
             \/ /\ pending /\ newPos = fwPos /\ newPos # bufPos
                /\ bufState = {"FW_EXPAND", "EXPAND"}
    /\ phase = "expanded" => /\ bufState = {"FW_EXPAND", "EXPAND", "UPDATE"}
                             /\ reg.status = "FW_EXPAND"

Shapes ==
    /\ DOMAIN mem = 0..(LargeEnd - 1) /\ bufPos \in Pos
    /\ DOMAIN buf = Bufs
    /\ \A b \in Bufs : buf[b] = [data |-> buf[b].data, first |-> buf[b].first,
                                 start |-> buf[b].start, end |-> buf[b].end]
    /\ cur = [b |-> cur.b, i |-> cur.i, last |-> cur.last]
    /\ handled \in Seq(Nat) /\ \A i \in 1..Len(handled) : handled[i] = i

RxInv ==
    /\ Shapes /\ Lists /\ Geometry
    /\ \E m, pos, c : Places(pos, m) /\ Queue(c, m)

-----------------------------------------------------------------------------
(* A packet in the ring                                                     *)

\* Position q is that after a packet of z cells at p. It has gone around the ring
\* when the packet does not fit in front of its end.
Spans(e, p, q, z) ==
    /\ z \in Nat /\ Desc <= z /\ z <= SmallEnd - Desc /\ 0 < q.a /\ q.a <= e
    /\ p.wrap = q.wrap => ~(e - p.a < Desc) /\ q.a = p.a + z
    /\ p.wrap # q.wrap => /\ q.a <= p.a
                          /\ \/ e - p.a < Desc /\ q.a = z
                             \/ ~(e - p.a < Desc) /\ e < p.a + z /\ q.a = p.a + z - e

\* A packet in the ring spans the cells up to the next position.
LEMMA PacketExtent ==
  ASSUME NEW mm, NEW e \in Nat, SmallEnd <= e, NEW p \in Pos, NEW q \in Pos, NEW n,
         p.a <= e, Packet(mm, e, p.a, n, q.a), q = Advance(p, q.a),
         NEW z, z = mm[From(e, p.a)].pkt.size
  PROVE  Spans(e, p, q, z)
<1>1. /\ Desc \in Nat /\ 0 < Desc /\ SmallEnd \in Nat /\ 2 * Desc <= SmallEnd
  BY RxBufAssumption
<1>2. /\ z \in Desc..(SmallEnd - Desc) /\ q.a = After(e, From(e, p.a) + z)
  BY DEF Packet
<1>3. /\ p.a \in Nat /\ q.a \in Nat /\ p.wrap \in BOOLEAN /\ q.wrap \in BOOLEAN
  BY DEF Pos
<1>4. q.wrap = IF q.a <= p.a THEN ~p.wrap ELSE p.wrap
  <2>1. q.wrap = [a |-> q.a, wrap |-> IF q.a <= p.a THEN ~p.wrap ELSE p.wrap].wrap
    BY DEF Advance
  <2>. QED  BY <2>1
<1>5. p.wrap = q.wrap <=> ~(q.a <= p.a)
  BY <1>3, <1>4
<1>6. CASE e - p.a < Desc
  <2>1. q.a = z
    BY <1>1, <1>2, <1>3, <1>6 DEF From, After
  <2>. QED  BY <1>1, <1>2, <1>3, <1>5, <1>6, <2>1 DEF Spans
<1>7. CASE ~(e - p.a < Desc) /\ p.a + z <= e
  <2>1. q.a = p.a + z
    BY <1>1, <1>2, <1>3, <1>7 DEF From, After
  <2>. QED  BY <1>1, <1>2, <1>3, <1>5, <1>7, <2>1 DEF Spans
<1>8. CASE ~(e - p.a < Desc) /\ ~(p.a + z <= e)
  <2>1. q.a = p.a + z - e
    BY <1>1, <1>2, <1>3, <1>8 DEF From, After
  <2>. QED  BY <1>1, <1>2, <1>3, <1>5, <1>8, <2>1 DEF Spans
<1>. QED  BY <1>6, <1>7, <1>8

\* The cells from lo to hi around a ring of e cells, as Unread counts them
Filling(e, lo, hi) ==
    IF hi = lo THEN {}
    ELSE IF lo.a < hi.a THEN lo.a..(hi.a - 1)
    ELSE (lo.a..(e - 1)) \cup (0..(hi.a - 1))

\* What Chain says of two neighbours, and of the last one.
LEMMA ChainFacts ==
  ASSUME NEW mm, NEW e \in Nat, SmallEnd <= e, NEW pos, NEW m, NEW s, Chain(mm, e, pos, m, s),
         NEW n \in (m + 1)..s
  PROVE  /\ m \in Nat /\ s \in Nat /\ n \in Nat
         /\ m + 1 \in (m + 1)..(s + 1) /\ s + 1 \in (m + 1)..(s + 1)
         /\ n \in (m + 1)..(s + 1) /\ n + 1 \in (m + 1)..(s + 1)
         /\ pos[m + 1] \in Pos /\ pos[s + 1] \in Pos /\ pos[n] \in Pos /\ pos[n + 1] \in Pos
         /\ Packet(mm, e, pos[n].a, n, pos[n + 1].a) /\ pos[n + 1] = Advance(pos[n], pos[n + 1].a)
         /\ pos[n].a <= e /\ pos[n + 1].a <= e
<1>1. m \in Nat /\ s \in Nat /\ m <= s /\ pos \in [(m + 1)..(s + 1) -> Pos]
  BY DEF Chain
<1>2. /\ m + 1 \in (m + 1)..(s + 1) /\ s + 1 \in (m + 1)..(s + 1) /\ n \in Nat
      /\ n \in (m + 1)..(s + 1) /\ n + 1 \in (m + 1)..(s + 1)
  BY <1>1
<1>3. /\ Packet(mm, e, pos[n].a, n, pos[n + 1].a) /\ pos[n + 1] = Advance(pos[n], pos[n + 1].a)
  BY <1>2 DEF Chain
<1>4. Lap(e, pos[m + 1], pos[n]) /\ Lap(e, pos[m + 1], pos[n + 1])
  BY <1>2 DEF Chain
<1>. QED  BY <1>1, <1>2, <1>3, <1>4 DEF Lap

\* Position q comes at or after p, and both after lo.
Ordered(e, lo, p, q) ==
    /\ p \in Pos /\ q \in Pos /\ lo \in Pos
    /\ p.a <= e /\ q.a <= e /\ lo.a <= e
    /\ p.wrap = q.wrap => p.a <= q.a
    /\ p.wrap # q.wrap => p.wrap = lo.wrap /\ 0 < q.a /\ q.a <= lo.a /\ lo.a <= p.a

\* The order of the positions of a chain.
LEMMA ChainOrder ==
  ASSUME NEW mm, NEW e \in Nat, SmallEnd <= e, NEW pos, NEW m, NEW s, Chain(mm, e, pos, m, s),
         NEW i \in (m + 1)..(s + 1), NEW j \in (m + 1)..(s + 1), i <= j
  PROVE  /\ Ordered(e, pos[m + 1], pos[i], pos[j])
         /\ i # j /\ pos[i].wrap = pos[j].wrap => pos[i].a + Desc <= pos[j].a
<1>1. Desc \in Nat /\ (i # j => i < j)
  BY RxBufAssumption DEF Chain
<1>2. /\ Lap(e, pos[m + 1], pos[i]) /\ Lap(e, pos[m + 1], pos[j])
      /\ i # j => Before(pos[m + 1], pos[i], pos[j])
  BY <1>1 DEF Chain
<1>. PICK lo, p, q : lo = pos[m + 1] /\ p = pos[i] /\ q = pos[j]
  OBVIOUS
<1>3. /\ Lap(e, lo, p) /\ Lap(e, lo, q) /\ (i # j => Before(lo, p, q)) /\ (i = j => p = q)
  BY <1>2
<1>4. /\ lo.a \in Nat /\ p.a \in Nat /\ q.a \in Nat
      /\ lo.wrap \in BOOLEAN /\ p.wrap \in BOOLEAN /\ q.wrap \in BOOLEAN
  BY <1>3 DEF Lap, Pos
<1>5. Ordered(e, lo, p, q) /\ (i # j /\ p.wrap = q.wrap => p.a + Desc <= q.a)
  BY <1>1, <1>3, <1>4 DEF Lap, Before, Ordered
<1>. QED  BY <1>5

\* A packet at p, of z cells and followed by q, between lo and hi in the ring.
LEMMA CellInFilling ==
  ASSUME NEW e \in Nat, NEW lo, NEW hi, NEW p, NEW q, NEW z, NEW k \in Nat, k < z,
         SmallEnd <= e, Spans(e, p, q, z), Ordered(e, lo, lo, p), Ordered(e, lo, p, q),
         Ordered(e, lo, q, hi), Ordered(e, lo, lo, hi), lo.wrap = hi.wrap => lo.a + Desc <= hi.a
  PROVE  Cell(e, From(e, p.a) + k) \in Filling(e, lo, hi)
<1>. /\ lo \in Pos /\ hi \in Pos /\ p \in Pos /\ q \in Pos
     /\ lo.a <= e /\ hi.a <= e /\ p.a <= e /\ q.a <= e
     /\ z \in Nat /\ z <= SmallEnd - Desc
     /\ p.wrap = q.wrap => ~(e - p.a < Desc) /\ q.a = p.a + z
     /\ p.wrap # q.wrap => /\ q.a <= p.a
                           /\ \/ e - p.a < Desc /\ q.a = z
                              \/ ~(e - p.a < Desc) /\ e < p.a + z /\ q.a = p.a + z - e
     /\ p.wrap # q.wrap => p.wrap = lo.wrap /\ lo.a <= p.a
     /\ lo.wrap = p.wrap => lo.a <= p.a
     /\ q.wrap = hi.wrap => q.a <= hi.a
     /\ q.wrap # hi.wrap => q.wrap = lo.wrap
     /\ lo.wrap # hi.wrap => 0 < hi.a /\ hi.a <= lo.a
     /\ lo.wrap = hi.wrap => lo.a + Desc <= hi.a
  BY DEF Spans, Ordered
<1>1. /\ lo.a \in Nat /\ hi.a \in Nat /\ p.a \in Nat /\ q.a \in Nat
      /\ lo.wrap \in BOOLEAN /\ hi.wrap \in BOOLEAN /\ p.wrap \in BOOLEAN /\ q.wrap \in BOOLEAN
  BY DEF Pos
<1>2. Desc \in Nat /\ 0 < Desc /\ SmallEnd \in Nat
  BY RxBufAssumption
<1>3. lo # hi /\ (lo.wrap = hi.wrap <=> lo.a < hi.a)
  <2>1. lo.wrap = hi.wrap => lo.a # hi.a
    BY <1>1, <1>2
  <2>. QED  BY <1>1, <1>2, <2>1
<1>4. CASE p.wrap = q.wrap
  <2>1. Cell(e, From(e, p.a) + k) = p.a + k /\ p.a + k < q.a
    BY <1>1, <1>2, <1>4 DEF Cell, From
  <2>2. CASE lo.wrap = hi.wrap
    <3>1. p.wrap = lo.wrap
      BY <1>1, <1>4, <2>2
    <3>2. lo.a <= p.a + k /\ p.a + k < hi.a
      BY <1>1, <1>4, <2>1, <2>2, <3>1
    <3>3. Filling(e, lo, hi) = lo.a..(hi.a - 1)
      BY <1>3, <2>2 DEF Filling
    <3>. QED  BY <1>1, <2>1, <3>2, <3>3
  <2>3. CASE lo.wrap # hi.wrap
    <3>1. (lo.a <= p.a + k /\ p.a + k < e) \/ p.a + k < hi.a
      <4>1. CASE p.wrap = lo.wrap
        BY <1>1, <1>4, <2>1, <4>1
      <4>2. CASE p.wrap # lo.wrap
        <5>1. q.wrap = hi.wrap
          BY <1>1, <1>4, <2>3, <4>2
        <5>. QED  BY <1>1, <2>1, <5>1
      <4>. QED  BY <4>1, <4>2
    <3>2. Filling(e, lo, hi) = (lo.a..(e - 1)) \cup (0..(hi.a - 1))
      BY <1>3, <2>3 DEF Filling
    <3>. QED  BY <1>1, <2>1, <3>1, <3>2
  <2>. QED  BY <2>2, <2>3
<1>5. CASE p.wrap # q.wrap
  <2>1. p.wrap = lo.wrap /\ lo.wrap # hi.wrap /\ q.wrap = hi.wrap /\ q.a <= hi.a /\ lo.a <= p.a
    BY <1>1, <1>5
  <2>2. Filling(e, lo, hi) = (lo.a..(e - 1)) \cup (0..(hi.a - 1))
    BY <1>3, <2>1 DEF Filling
  <2>3. CASE e - p.a < Desc
    <3>1. Cell(e, From(e, p.a) + k) = k /\ k < hi.a
      BY <1>1, <1>2, <1>5, <2>1, <2>3 DEF Cell, From
    <3>. QED  BY <1>1, <2>2, <3>1
  <2>4. CASE ~(e - p.a < Desc)
    <3>1. CASE p.a + k < e
      <4>1. Cell(e, From(e, p.a) + k) = p.a + k
        BY <2>4, <3>1 DEF Cell, From
      <4>. QED  BY <1>1, <2>1, <2>2, <3>1, <4>1
    <3>2. CASE ~(p.a + k < e)
      <4>1. Cell(e, From(e, p.a) + k) = p.a + k - e
        BY <1>1, <2>4, <3>2 DEF Cell, From
      <4>2. p.a + k - e < hi.a /\ p.a + k - e \in Nat
        BY <1>1, <1>2, <1>5, <2>1, <2>4, <3>2
      <4>. QED  BY <1>1, <2>2, <4>1, <4>2
    <3>. QED  BY <3>1, <3>2
  <2>. QED  BY <2>3, <2>4
<1>. QED  BY <1>4, <1>5

\* The size of the n-th packet of a chain.
Size(mm, e, pos, n) == mm[From(e, pos[n].a)].pkt.size

\* The n-th packet of a chain spans the cells between its positions.
LEMMA ChainExtent ==
  ASSUME NEW mm, NEW e \in Nat, SmallEnd <= e, NEW pos, NEW m, NEW s, Chain(mm, e, pos, m, s),
         NEW n \in (m + 1)..s
  PROVE  Spans(e, pos[n], pos[n + 1], Size(mm, e, pos, n))
<1>1. \A p, q, z : /\ p \in Pos /\ q \in Pos /\ p.a <= e /\ Packet(mm, e, p.a, n, q.a)
                   /\ q = Advance(p, q.a) /\ z = mm[From(e, p.a)].pkt.size
        => Spans(e, p, q, z)
  BY PacketExtent
<1>2. /\ m \in Nat /\ s \in Nat /\ n \in Nat
      /\ pos[n] \in Pos /\ pos[n + 1] \in Pos
      /\ Packet(mm, e, pos[n].a, n, pos[n + 1].a) /\ pos[n + 1] = Advance(pos[n], pos[n + 1].a)
      /\ pos[n].a <= e
  BY ChainFacts
<1>3. Size(mm, e, pos, n) = mm[From(e, pos[n].a)].pkt.size
  BY DEF Size
<1>. QED  BY <1>1, <1>2, <1>3

\* A packet of the chain lies between its first and its last position.
LEMMA PacketInFilling ==
  ASSUME NEW mm, NEW e \in Nat, SmallEnd <= e, NEW pos, NEW m, NEW s, Chain(mm, e, pos, m, s),
         NEW n \in (m + 1)..s, NEW k \in 0..(Size(mm, e, pos, n) - 1)
  PROVE  Cell(e, From(e, pos[n].a) + k) \in Filling(e, pos[m + 1], pos[s + 1])
<1>1. /\ m \in Nat /\ s \in Nat /\ n \in Nat
      /\ m + 1 \in (m + 1)..(s + 1) /\ s + 1 \in (m + 1)..(s + 1)
      /\ n \in (m + 1)..(s + 1) /\ n + 1 \in (m + 1)..(s + 1)
  BY ChainFacts
<1>2. m + 1 <= n /\ n <= n + 1 /\ n + 1 <= s + 1 /\ m + 1 <= s + 1 /\ m + 1 # s + 1
  BY <1>1
<1>3. Spans(e, pos[n], pos[n + 1], Size(mm, e, pos, n))
  BY ChainExtent
<1>4. Ordered(e, pos[m + 1], pos[m + 1], pos[n])
  BY <1>1, <1>2, ChainOrder
<1>5. Ordered(e, pos[m + 1], pos[n], pos[n + 1])
  BY <1>1, <1>2, ChainOrder
<1>6. Ordered(e, pos[m + 1], pos[n + 1], pos[s + 1])
  BY <1>1, <1>2, ChainOrder
<1>7. /\ Ordered(e, pos[m + 1], pos[m + 1], pos[s + 1])
      /\ pos[m + 1].wrap = pos[s + 1].wrap => pos[m + 1].a + Desc <= pos[s + 1].a
  BY <1>1, <1>2, ChainOrder
<1>8. k \in Nat /\ k < Size(mm, e, pos, n)
  BY <1>3 DEF Spans
<1>. QED  BY <1>3, <1>4, <1>5, <1>6, <1>7, <1>8, CellInFilling
-----------------------------------------------------------------------------
(* The firmware writes a packet                                             *)

\* The cells that a packet of the given size takes at hi are free.
Room(e, lo, hi, size) ==
    \A k \in 0..(size - 1) : Cell(e, From(e, hi.a) + k) \notin Filling(e, lo, hi)

\* The position after a packet written into free cells is still on the lap.
LEMMA NextPlace ==
  ASSUME NEW e \in Nat, SmallEnd <= e, NEW lo, NEW hi, Lap(e, lo, hi),
         NEW size \in Desc..(SmallEnd - Desc), Room(e, lo, hi, size),
         NEW next, next = After(e, From(e, hi.a) + size),
         NEW new, new = Advance(hi, next),
         ~(e - lo.a < Desc /\ e - next < Desc /\ new.wrap # lo.wrap)
  PROVE  Lap(e, lo, new) /\ Before(lo, hi, new)
<1>1. /\ lo \in Pos /\ hi \in Pos /\ lo.a \in Nat /\ hi.a \in Nat
      /\ lo.wrap \in BOOLEAN /\ hi.wrap \in BOOLEAN /\ lo.a <= e /\ hi.a <= e
      /\ hi.wrap = lo.wrap => lo.a <= hi.a
      /\ hi.wrap # lo.wrap => /\ 0 < hi.a /\ hi.a <= lo.a
                              /\ ~(e - lo.a < Desc /\ e - hi.a < Desc)
  BY DEF Lap, Pos
<1>2. /\ Desc \in Nat /\ 0 < Desc /\ SmallEnd \in Nat /\ 2 * Desc <= SmallEnd
      /\ size \in Nat /\ Desc <= size /\ size <= SmallEnd - Desc
  BY RxBufAssumption
<1>3. /\ new.a = next
      /\ new.wrap = IF next <= hi.a THEN ~hi.wrap ELSE hi.wrap
      /\ new = [a |-> next, wrap |-> new.wrap]
  BY DEF Advance
<1>4. CASE hi.wrap # lo.wrap
  <2>1. Filling(e, lo, hi) = (lo.a..(e - 1)) \cup (0..(hi.a - 1))
    BY <1>1, <1>4 DEF Filling
  <2>2. e - hi.a >= Desc /\ From(e, hi.a) = hi.a
    BY <1>1, <1>2, <1>4 DEF From
  <2>3. hi.a + size <= lo.a
    <3>1. SUFFICES ASSUME ~(hi.a + size <= lo.a) PROVE FALSE
      OBVIOUS
    <3>2. PICK k : k = lo.a - hi.a
      OBVIOUS
    <3>3. k \in 0..(size - 1) /\ hi.a + k = lo.a
      BY <1>1, <1>2, <1>4, <3>1, <3>2
    <3>4. Cell(e, lo.a) \notin Filling(e, lo, hi)
      BY <2>2, <3>3 DEF Room
    <3>5. CASE lo.a < e
      <4>1. Cell(e, lo.a) = lo.a
        BY <3>5 DEF Cell
      <4>. QED  BY <1>1, <2>1, <3>4, <3>5, <4>1
    <3>6. CASE ~(lo.a < e)
      <4>1. Cell(e, lo.a) = 0
        BY <1>1, <3>6 DEF Cell
      <4>2. 0 \in 0..(hi.a - 1)
        BY <1>1, <1>4
      <4>. QED  BY <2>1, <3>4, <4>1, <4>2
    <3>. QED  BY <3>5, <3>6
  <2>4. next = hi.a + size
    BY <1>1, <1>2, <2>2, <2>3 DEF After
  <2>5. new.wrap = hi.wrap
    BY <1>1, <1>2, <1>3, <2>4
  <2>. QED  BY <1>1, <1>2, <1>3, <1>4, <2>3, <2>4, <2>5 DEF Lap, Before, Pos
<1>5. CASE hi.wrap = lo.wrap /\ ~(next <= hi.a)
  <2>1. e - hi.a >= Desc /\ next = hi.a + size /\ next <= e
    BY <1>1, <1>2, <1>5 DEF From, After
  <2>. QED  BY <1>1, <1>2, <1>3, <1>5, <2>1 DEF Lap, Before, Pos
<1>6. CASE hi.wrap = lo.wrap /\ next <= hi.a
  <2>1. \/ e - hi.a < Desc /\ From(e, hi.a) = 0 /\ next = size
        \/ /\ e - hi.a >= Desc /\ From(e, hi.a) = hi.a
           /\ next = hi.a + size - e /\ e < hi.a + size
    BY <1>1, <1>2, <1>6 DEF From, After
  <2>2. next \in Nat /\ 0 < next
    BY <1>1, <1>2, <2>1
  <2>3. next <= lo.a
    <3>1. CASE lo.a = hi.a
      BY <1>6, <3>1
    <3>2. CASE lo.a < hi.a /\ ~(next <= lo.a)
      <4>1. Filling(e, lo, hi) = lo.a..(hi.a - 1)
        <5>1. hi # lo
          BY <1>1, <3>2
        <5>. QED  BY <3>2, <5>1 DEF Filling
      <4>2. lo.a \in Filling(e, lo, hi)
        BY <1>1, <3>2, <4>1
      <4>3. \E k \in 0..(size - 1) : Cell(e, From(e, hi.a) + k) = lo.a
        <5>1. CASE e - hi.a < Desc
          <6>1. From(e, hi.a) = 0 /\ next = size
            BY <1>1, <1>2, <2>1, <5>1
          <6>2. lo.a \in 0..(size - 1) /\ Cell(e, 0 + lo.a) = lo.a
            BY <1>1, <1>2, <3>2, <6>1 DEF Cell
          <6>. QED  BY <6>1, <6>2
        <5>2. CASE e - hi.a >= Desc
          <6>1. From(e, hi.a) = hi.a /\ next = hi.a + size - e
            BY <1>1, <1>2, <2>1, <5>2
          <6>2. PICK k : k = e - hi.a + lo.a
            OBVIOUS
          <6>3. k \in 0..(size - 1) /\ hi.a + k = e + lo.a
            BY <1>1, <1>2, <3>2, <6>1, <6>2
          <6>4. Cell(e, e + lo.a) = lo.a
            BY <1>1 DEF Cell
          <6>. QED  BY <6>1, <6>3, <6>4
        <5>. QED  BY <1>1, <1>2, <5>1, <5>2
      <4>. QED  BY <4>2, <4>3 DEF Room
    <3>. QED  BY <1>1, <1>6, <2>2, <3>1, <3>2
  <2>4. new.wrap # hi.wrap /\ new.wrap \in BOOLEAN
    BY <1>1, <1>3, <1>6
  <2>5. new \in Pos /\ new.a \in Nat /\ new.a <= e /\ new.wrap # lo.wrap
    BY <1>1, <1>3, <1>6, <2>2, <2>3, <2>4 DEF Pos
  <2>6. Lap(e, lo, new)
    BY <1>1, <1>3, <2>2, <2>3, <2>5 DEF Lap
  <2>. QED  BY <1>1, <1>6, <2>4, <2>5, <2>6 DEF Before
<1>. QED  BY <1>1, <1>4, <1>5, <1>6

\* A packet keeps its cells as long as those between lo and hi are kept.
LEMMA PacketKept ==
  ASSUME NEW mm, NEW e \in Nat, SmallEnd <= e, NEW pos, NEW m, NEW s, Chain(mm, e, pos, m, s),
         NEW n \in (m + 1)..s,
         NEW mm2, \A a \in Filling(e, pos[m + 1], pos[s + 1]) : mm2[a] = mm[a]
  PROVE  Packet(mm2, e, pos[n].a, n, pos[n + 1].a)
<1>1. \A k \in 0..(Size(mm, e, pos, n) - 1) :
         mm2[Cell(e, From(e, pos[n].a) + k)] = mm[Cell(e, From(e, pos[n].a) + k)]
  BY PacketInFilling
<1>2. /\ Packet(mm, e, pos[n].a, n, pos[n + 1].a)
      /\ pos[n] \in Pos /\ pos[n].a <= e
  BY ChainFacts
<1>3. Spans(e, pos[n], pos[n + 1], Size(mm, e, pos, n))
  BY ChainExtent
<1>. PICK a, next, z, f : /\ a = pos[n].a /\ next = pos[n + 1].a /\ z = Size(mm, e, pos, n)
                          /\ f = From(e, pos[n].a)
  OBVIOUS
<1>4. /\ Desc \in Nat /\ 0 < Desc /\ a \in Nat /\ a <= e /\ z \in Nat /\ Desc <= z
      /\ f = From(e, a) /\ z = mm[f].pkt.size
  BY <1>2, <1>3, RxBufAssumption DEF Spans, Pos, Size
<1>5. f \in Nat /\ f < e
  BY <1>4, RxBufAssumption DEF From
<1>6. Cell(e, f + 0) = f /\ 0 \in 0..(z - 1)
  BY <1>4, <1>5 DEF Cell
<1>7. \A k \in 0..(z - 1) : mm2[Cell(e, f + k)] = mm[Cell(e, f + k)]
  BY <1>1
<1>8. mm2[f] = mm[f]
  BY <1>6, <1>7
<1>9. Packet(mm, e, a, n, next)
  BY <1>2
<1>a. Packet(mm2, e, a, n, next)
  <2>. PICK p : p = mm[f].pkt
    OBVIOUS
  <2>1. /\ p.n = n /\ p.next = next /\ p.size = z /\ p.size \in Desc..(SmallEnd - Desc)
        /\ next = After(e, f + p.size)
        /\ \A k \in 0..(p.size - 1) : mm[Cell(e, f + k)] = [pkt |-> p, k |-> k]
    BY <1>4, <1>9 DEF Packet
  <2>2. \A k \in 0..(p.size - 1) : mm2[Cell(e, f + k)] = [pkt |-> p, k |-> k]
    BY <1>7, <2>1
  <2>3. mm2[f].pkt = p
    BY <1>8
  <2>4. From(e, a) = f
    BY <1>4
  <2>. QED  BY <2>1, <2>2, <2>3, <2>4 DEF Packet
<1>. QED  BY <1>a

\* The chain with one more packet.
LEMMA ChainExtended ==
  ASSUME NEW mm, NEW e \in Nat, SmallEnd <= e, NEW pos, NEW m, NEW s, Chain(mm, e, pos, m, s),
         NEW mm2, \A a \in Filling(e, pos[m + 1], pos[s + 1]) : mm2[a] = mm[a],
         NEW new, new = Advance(pos[s + 1], new.a),
         Lap(e, pos[m + 1], new), Before(pos[m + 1], pos[s + 1], new),
         Packet(mm2, e, pos[s + 1].a, s + 1, new.a),
         NEW pos2, pos2 = [n \in (m + 1)..((s + 1) + 1) |-> IF n = (s + 1) + 1 THEN new ELSE pos[n]]
  PROVE  Chain(mm2, e, pos2, m, s + 1)
<1>1. /\ m \in Nat /\ s \in Nat /\ m <= s /\ pos \in [(m + 1)..(s + 1) -> Pos] /\ new \in Pos
      /\ s + 1 \in (m + 1)..(s + 1)
  BY DEF Chain, Lap
<1>2. /\ \A n \in (m + 1)..(s + 1) : pos2[n] = pos[n] /\ n # (s + 1) + 1
      /\ \A n \in (m + 1)..((s + 1) + 1) : n \in (m + 1)..(s + 1) \/ n = (s + 1) + 1
      /\ pos2[(s + 1) + 1] = new
      /\ m + 1 \in (m + 1)..(s + 1) /\ s + 1 \in (m + 1)..(s + 1)
  BY <1>1
<1>3. pos2 \in [(m + 1)..((s + 1) + 1) -> Pos]
  BY <1>1, <1>2
<1>4. ASSUME NEW n \in (m + 1)..(s + 1)
      PROVE  /\ Packet(mm2, e, pos2[n].a, n, pos2[n + 1].a)
             /\ pos2[n + 1] = Advance(pos2[n], pos2[n + 1].a)
  <2>1. CASE n = s + 1
    BY <1>2, <2>1
  <2>2. CASE n # s + 1
    <3>1. n \in (m + 1)..s /\ n + 1 \in (m + 1)..(s + 1)
      BY <1>1, <2>2
    <3>2. pos2[n] = pos[n] /\ pos2[n + 1] = pos[n + 1]
      BY <1>2, <3>1
    <3>3. Packet(mm2, e, pos[n].a, n, pos[n + 1].a)
      BY <3>1, PacketKept
    <3>4. pos[n + 1] = Advance(pos[n], pos[n + 1].a)
      BY <3>1 DEF Chain
    <3>. QED  BY <3>2, <3>3, <3>4
  <2>. QED  BY <2>1, <2>2
<1>5. ASSUME NEW n \in (m + 1)..((s + 1) + 1)
      PROVE  Lap(e, pos2[m + 1], pos2[n])
  <2>1. n \in (m + 1)..(s + 1) => Lap(e, pos[m + 1], pos[n])
    BY DEF Chain
  <2>. QED  BY <1>2, <2>1
<1>6. ASSUME NEW i \in (m + 1)..((s + 1) + 1), NEW j \in (m + 1)..((s + 1) + 1), i < j
      PROVE  Before(pos2[m + 1], pos2[i], pos2[j])
  <2>1. CASE j # (s + 1) + 1
    <3>1. i \in (m + 1)..(s + 1) /\ j \in (m + 1)..(s + 1)
      BY <1>1, <1>6, <2>1
    <3>2. Before(pos[m + 1], pos[i], pos[j])
      BY <1>6, <3>1 DEF Chain
    <3>. QED  BY <1>2, <3>1, <3>2
  <2>2. CASE j = (s + 1) + 1 /\ i # s + 1
    <3>1. i \in (m + 1)..(s + 1) /\ i < s + 1 /\ s + 1 \in (m + 1)..(s + 1)
      BY <1>1, <1>6, <2>2
    <3>2. Before(pos[m + 1], pos[i], pos[s + 1])
      BY <3>1 DEF Chain
    <3>3. pos[m + 1] \in Pos /\ pos[i] \in Pos /\ pos[s + 1] \in Pos
      BY <1>1, <1>2, <3>1
    <3>. PICK lo, p, hi : lo = pos[m + 1] /\ p = pos[i] /\ hi = pos[s + 1]
      OBVIOUS
    <3>4. /\ Before(lo, p, hi) /\ Before(lo, hi, new) /\ Desc \in Nat
          /\ lo.wrap \in BOOLEAN /\ p.wrap \in BOOLEAN /\ hi.wrap \in BOOLEAN
          /\ new.wrap \in BOOLEAN /\ p.a \in Nat /\ hi.a \in Nat /\ new.a \in Nat
      BY <1>1, <3>2, <3>3, RxBufAssumption DEF Pos
    <3>5. ASSUME p.wrap = new.wrap PROVE p.a + Desc <= new.a
      <4>1. p.wrap = hi.wrap /\ hi.wrap = new.wrap
        BY <3>4, <3>5 DEF Before
      <4>2. p.a + Desc <= hi.a /\ hi.a + Desc <= new.a
        BY <3>4, <4>1 DEF Before
      <4>. QED  BY <3>4, <4>2
    <3>6. p.wrap # lo.wrap => new.wrap # lo.wrap
      BY <3>4 DEF Before
    <3>7. Before(lo, p, new)
      BY <3>5, <3>6 DEF Before
    <3>. QED  BY <1>2, <2>2, <3>1, <3>7
  <2>3. CASE j = (s + 1) + 1 /\ i = s + 1
    BY <1>2, <2>3
  <2>. QED  BY <2>1, <2>2, <2>3
<1>7. m \in Nat /\ s + 1 \in Nat /\ m <= s + 1
  BY <1>1
<1>. QED  BY <1>3, <1>4, <1>5, <1>6, <1>7 DEF Chain

\* From mm to mm2, packet n is written at hi into free cells, and new is the position
\* after it. The cells from lo to hi are left alone.
Written(mm, mm2, e, lo, hi, size, n, new) ==
    LET next == After(e, From(e, hi.a) + size) IN
    /\ Room(e, lo, hi, size) /\ new = Advance(hi, next)
    /\ ~(e - lo.a < Desc /\ e - next < Desc /\ new.wrap # lo.wrap)
    /\ Packet(mm2, e, hi.a, n, next)
    /\ \A a \in Filling(e, lo, hi) : a \in 0..(LargeEnd - 1) => mm2[a] = mm[a]

\* The action Write does that.
LEMMA WriteCells ==
  ASSUME NEW f, NEW size \in Sizes, Write(f, size),
         NEW e, e = fwEnd, e \in Nat, SmallEnd <= e, e <= LargeEnd,
         DOMAIN mem = 0..(LargeEnd - 1), fwPos \in Pos,
         bufPos \in Pos
  PROVE  Written(mem, mem', e, bufPos, fwPos, size, sent + 1, fwPos') /\ sent' = sent + 1
<1>. PICK hi, mm2, next : hi = fwPos /\ mm2 = mem' /\ next = After(e, From(e, hi.a) + size)
  OBVIOUS
<1>0. Unread = Filling(e, bufPos, fwPos)
  BY DEF Unread, Filling
<1>1. /\ Desc \in Nat /\ 0 < Desc /\ SmallEnd \in Nat /\ 2 * Desc <= SmallEnd
      /\ size \in Desc..(SmallEnd - Desc)
  BY RxBufAssumption
<1>2. /\ size \in Nat /\ size >= Desc /\ size <= SmallEnd - Desc /\ size <= e
      /\ hi.a \in Nat
  BY <1>1 DEF Pos
<1>. DEFINE from == IF InTail(fwPos.a) THEN 0 ELSE fwPos.a
            to   == IF from + size <= fwEnd THEN from + size ELSE from + size - fwEnd
            cell == [k \in 0..(size - 1) |-> IF from + k < fwEnd THEN from + k
                                             ELSE from + k - fwEnd]
            pkt  == [n |-> sent + 1, size |-> size, next |-> to, tid |-> f.tid,
                     sn |-> f.sn, hold |-> f.hold, range |-> f.range]
<1>3. from = From(e, hi.a) /\ from \in Nat /\ from <= e /\ from < e /\ to = next
  <2>1. from = From(e, hi.a)
    BY DEF InTail, From
  <2>2. from \in Nat /\ from <= e /\ from < e
    BY <1>1, <1>2, <2>1 DEF From
  <2>. HIDE DEF from
  <2>3. to = next
    BY <1>2, <2>1, <2>2 DEF After
  <2>. QED  BY <2>1, <2>2, <2>3
<1>4. /\ \A k \in DOMAIN cell : cell[k] \notin Unread
      /\ ~(InTail(bufPos.a) /\ InTail(to) /\ Advance(fwPos, to).wrap # bufPos.wrap)
      /\ mem' = [a \in DOMAIN mem |->
              IF \E k \in DOMAIN cell : cell[k] = a
              THEN [pkt |-> pkt, k |-> CHOOSE k \in DOMAIN cell : cell[k] = a]
              ELSE mem[a]]
      /\ fwPos' = Advance(fwPos, to) /\ sent' = sent + 1
  BY DEF Write
<1>. HIDE DEF from, to
<1>5. DOMAIN cell = 0..(size - 1) /\ \A k \in 0..(size - 1) : cell[k] = Cell(e, from + k)
  BY <1>2, <1>3 DEF Cell
<1>6. Room(e, bufPos, fwPos, size)
  <2>. HIDE DEF cell
  <2>. QED  BY <1>0, <1>3, <1>4, <1>5 DEF Room
<1>7. pkt.n = sent + 1 /\ pkt.size = size /\ pkt.next = next
  BY <1>3
<1>8. \A k \in 0..(size - 1) : mm2[Cell(e, from + k)] = [pkt |-> pkt, k |-> k]
  <2>1. TAKE k \in 0..(size - 1)
  <2>2. cell[k] \in DOMAIN mem
    <3>1. k \in Nat /\ k < size /\ cell[k] = Cell(e, from + k)
      BY <1>2, <1>5
    <3>2. Cell(e, from + k) \in 0..(LargeEnd - 1)
      BY <1>2, <1>3, <3>1, RxBufAssumption DEF Cell
    <3>. QED  BY <3>1, <3>2
  <2>3. ASSUME NEW j \in 0..(size - 1), cell[j] = cell[k] PROVE j = k
    <3>1. Cell(e, from + j) = Cell(e, from + k)
      BY <1>5, <2>3
    <3>2. j \in Nat /\ k \in Nat /\ j < e /\ k < e
      BY <1>2
    <3>. HIDE DEF cell
    <3>. QED  BY <1>3, <3>1, <3>2 DEF Cell
  <2>. HIDE DEF cell, pkt
  <2>4. (CHOOSE j \in DOMAIN cell : cell[j] = cell[k]) = k
    BY <1>5, <2>3
  <2>. QED  BY <1>4, <1>5, <2>2, <2>4
<1>9. Packet(mm2, e, hi.a, sent + 1, next)
  <2>1. Cell(e, from + 0) = from /\ 0 \in 0..(size - 1)
    BY <1>1, <1>2, <1>3 DEF Cell
  <2>. HIDE DEF cell, pkt
  <2>2. mm2[from] = [pkt |-> pkt, k |-> 0]
    BY <1>8, <2>1
  <2>3. mm2[from].pkt = pkt
    BY <2>2
  <2>. QED  BY <1>1, <1>3, <1>7, <1>8, <2>3 DEF Packet
<1>a. \A a \in Filling(e, bufPos, fwPos) : a \in 0..(LargeEnd - 1) => mm2[a] = mem[a]
  <2>. HIDE DEF cell, pkt
  <2>1. ASSUME NEW a \in Filling(e, bufPos, fwPos), a \in 0..(LargeEnd - 1)
        PROVE  mem'[a] = mem[a]
    <3>1. a \in DOMAIN mem /\ ~ \E k \in DOMAIN cell : cell[k] = a
      BY <1>0, <1>4, <2>1
    <3>. QED  BY <1>4, <3>1
  <2>. QED  BY <2>1
<1>b. ~(e - bufPos.a < Desc /\ e - next < Desc /\ fwPos'.wrap # bufPos.wrap)
  BY <1>3, <1>4 DEF InTail
<1>c. fwPos' = Advance(hi, next) /\ sent' = sent + 1
  BY <1>3, <1>4
<1>. QED  BY <1>6, <1>9, <1>a, <1>b, <1>c DEF Written

\* The chain pos2 has packet s + 1 more than pos, and goes on to new.
Extends(mm2, e, pos, pos2, m, s, new) ==
    /\ Chain(mm2, e, pos2, m, s + 1) /\ pos2[(s + 1) + 1] = new
    /\ \A n \in (m + 1)..(s + 1) : pos2[n] = pos[n]

\* A packet written behind a chain extends it.
LEMMA ChainWritten ==
  ASSUME NEW mm, NEW e \in Nat, SmallEnd <= e, e <= LargeEnd, NEW pos, NEW m, NEW s,
         Chain(mm, e, pos, m, s), NEW size \in Sizes, NEW mm2, NEW new,
         Written(mm, mm2, e, pos[m + 1], pos[s + 1], size, s + 1, new)
  PROVE  \E pos2 : Extends(mm2, e, pos, pos2, m, s, new)
<1>. PICK lo, hi : lo = pos[m + 1] /\ hi = pos[s + 1]
  OBVIOUS
<1>. PICK next : next = After(e, From(e, hi.a) + size)
  OBVIOUS
<1>1. m \in Nat /\ s \in Nat /\ m <= s /\ s + 1 \in (m + 1)..(s + 1)
  BY DEF Chain
<1>2. Lap(e, lo, hi)
  BY <1>1 DEF Chain
<1>3. /\ lo \in Pos /\ hi \in Pos /\ lo.a \in Nat /\ hi.a \in Nat /\ lo.a <= e /\ hi.a <= e
  BY <1>2 DEF Lap, Pos
<1>4. /\ Room(e, lo, hi, size) /\ new = Advance(hi, next)
      /\ ~(e - lo.a < Desc /\ e - next < Desc /\ new.wrap # lo.wrap)
      /\ Packet(mm2, e, hi.a, s + 1, next)
      /\ \A a \in Filling(e, lo, hi) : a \in 0..(LargeEnd - 1) => mm2[a] = mm[a]
  BY DEF Written
<1>5. \A a \in Filling(e, lo, hi) : a \in 0..(LargeEnd - 1)
  BY <1>3, RxBufAssumption DEF Filling
<1>6. size \in Desc..(SmallEnd - Desc)
  BY RxBufAssumption
<1>7. Lap(e, lo, new) /\ Before(lo, hi, new)
  BY <1>2, <1>4, <1>6, NextPlace
<1>8. new.a = next
  BY <1>4 DEF Advance
<1>9. /\ new = Advance(pos[s + 1], new.a) /\ Packet(mm2, e, pos[s + 1].a, s + 1, new.a)
      /\ Lap(e, pos[m + 1], new) /\ Before(pos[m + 1], pos[s + 1], new)
      /\ \A a \in Filling(e, pos[m + 1], pos[s + 1]) : mm2[a] = mm[a]
  BY <1>4, <1>5, <1>7, <1>8
<1>a. PICK pos2 : pos2 = [n \in (m + 1)..((s + 1) + 1) |->
                             IF n = (s + 1) + 1 THEN new ELSE pos[n]]
  OBVIOUS
<1>b. Chain(mm2, e, pos2, m, s + 1)
  BY <1>9, <1>a, ChainExtended
<1>c. pos2[(s + 1) + 1] = new /\ \A n \in (m + 1)..(s + 1) : pos2[n] = pos[n]
  BY <1>1, <1>a
<1>. QED  BY <1>b, <1>c DEF Extends

\* Publishing adds a packet to the chain.
LEMMA RingPublish ==
  ASSUME NEW f, NEW size \in Sizes, Write(f, size),
         fwEnd \in Nat, SmallEnd <= fwEnd, fwEnd <= LargeEnd, DOMAIN mem = 0..(LargeEnd - 1),
         NEW pos, NEW m, Chain(mem, fwEnd, pos, m, sent),
         pos[m + 1] = bufPos, pos[sent + 1] = fwPos
  PROVE  /\ sent' = sent + 1
         /\ \E pos2 : Extends(mem', fwEnd, pos, pos2, m, sent, fwPos')
<1>1. bufPos \in Pos /\ fwPos \in Pos
  BY DEF Chain
<1>2. Written(mem, mem', fwEnd, bufPos, fwPos, size, sent + 1, fwPos') /\ sent' = sent + 1
  BY <1>1, WriteCells
<1>3. Written(mem, mem', fwEnd, pos[m + 1], pos[sent + 1], size, sent + 1, fwPos')
  BY <1>2
<1>4. \E pos2 : Extends(mem', fwEnd, pos, pos2, m, sent, fwPos')
  BY <1>3, ChainWritten
<1>. QED  BY <1>2, <1>4

-----------------------------------------------------------------------------
(* The interrupt task reads the ring                                        *)

Copy(mm, from, to) == [i \in 1..(to - from) |-> mm[from + i - 1]]

\* Filled, of two addresses.
Loaded(mm, e, lo, hi) ==
    IF hi > lo
    THEN [data |-> Copy(mm, lo, hi), first |-> hi - lo, start |-> lo, end |-> e]
    ELSE IF e - lo < Desc
    THEN [data |-> Copy(mm, 0, hi), first |-> 0,
          start |-> IF hi > 0 THEN 0 ELSE lo, end |-> e]
    ELSE [data |-> Copy(mm, lo, e) \o Copy(mm, 0, hi), first |-> e - lo, start |-> lo,
          end |-> e]

\* A buffer of len bytes, first of them before the end of the ring, that begins at cell
\* base and holds what is between lo and hi.
Holds(e, lo, hi, base, first, len) ==
    \/ /\ hi.wrap = lo.wrap /\ ~(e - lo.a < Desc)
       /\ base = lo.a /\ first = hi.a - lo.a /\ len = hi.a - lo.a
    \/ /\ hi.wrap # lo.wrap /\ ~(e - lo.a < Desc)
       /\ base = lo.a /\ first = e - lo.a /\ len = e - lo.a + hi.a
    \/ hi.wrap # lo.wrap /\ e - lo.a < Desc /\ base = 0 /\ first = 0 /\ len = hi.a

\* The place of position p in it.
Index(e, lo, first, p) ==
    IF p.wrap = lo.wrap /\ ~(e - p.a < Desc) THEN p.a - lo.a ELSE first + From(e, p.a)

\* Where aml_rx_task goes on from index i and address a when the next is b.
Goes(i, a, b, first) == IF b > a THEN i + b - a ELSE first + b

\* The packet between p and q is in the buffer, and the walk goes from p to q.
InBuffer(e, lo, p, q, z, base, first, len) ==
    /\ Index(e, lo, first, p) \in Nat /\ Index(e, lo, first, p) + z <= len
    /\ Index(e, lo, first, q)
          = Goes(Index(e, lo, first, p), From(e, p.a), From(e, q.a), first)
    /\ \A k \in 0..(z - 1) :
          Cell(e, base + Index(e, lo, first, p) + k) = Cell(e, From(e, p.a) + k)

\* It is so for each packet between lo and hi.
LEMMA PacketInBuffer ==
  ASSUME NEW e \in Nat, NEW lo, NEW hi, NEW p, NEW q, NEW z, Spans(e, p, q, z),
         Lap(e, lo, p), Lap(e, lo, q), Lap(e, lo, hi), Ordered(e, lo, p, q),
         Ordered(e, lo, q, hi), SmallEnd <= e,
         NEW base, NEW first, NEW len, Holds(e, lo, hi, base, first, len)
  PROVE  InBuffer(e, lo, p, q, z, base, first, len)
<1>1. /\ lo.a \in Nat /\ hi.a \in Nat /\ p.a \in Nat /\ q.a \in Nat
      /\ lo.wrap \in BOOLEAN /\ hi.wrap \in BOOLEAN /\ p.wrap \in BOOLEAN /\ q.wrap \in BOOLEAN
      /\ lo.a <= e /\ hi.a <= e /\ p.a <= e /\ q.a <= e
  BY DEF Lap, Pos
<1>2. Desc \in Nat /\ 0 < Desc /\ SmallEnd \in Nat
  BY RxBufAssumption
<1>3. /\ z \in Nat /\ Desc <= z /\ z <= SmallEnd - Desc /\ 0 < q.a
      /\ p.wrap = q.wrap => ~(e - p.a < Desc) /\ q.a = p.a + z
      /\ p.wrap # q.wrap => /\ q.a <= p.a
                            /\ \/ e - p.a < Desc /\ q.a = z
                               \/ ~(e - p.a < Desc) /\ e < p.a + z /\ q.a = p.a + z - e
  BY DEF Spans
<1>4. /\ p.wrap = lo.wrap => lo.a <= p.a
      /\ p.wrap # lo.wrap => p.a <= lo.a /\ ~(e - lo.a < Desc /\ e - p.a < Desc)
      /\ q.wrap = lo.wrap => lo.a <= q.a
      /\ q.wrap # lo.wrap => q.a <= lo.a /\ ~(e - lo.a < Desc /\ e - q.a < Desc)
  BY DEF Lap
<1>5. /\ p.wrap # lo.wrap => q.wrap # lo.wrap /\ ~(e - p.a < Desc)
      /\ q.wrap # lo.wrap => hi.wrap # lo.wrap /\ q.a <= hi.a /\ ~(e - q.a < Desc)
      /\ q.wrap = hi.wrap => q.a <= hi.a
  <2>1. /\ p.wrap # lo.wrap => q.wrap # lo.wrap
        /\ q.wrap # lo.wrap => hi.wrap # lo.wrap
        /\ q.wrap = hi.wrap => q.a <= hi.a
    BY <1>1 DEF Ordered
  <2>. QED  BY <1>1, <1>2, <1>4, <2>1
<1>6. base \in Nat /\ first \in Int /\ len \in Int
  BY <1>1 DEF Holds
<1>. PICK i, j, f, g : /\ i = Index(e, lo, first, p) /\ j = Index(e, lo, first, q)
                       /\ f = From(e, p.a) /\ g = From(e, q.a)
  OBVIOUS
<1>7. CASE p.wrap = lo.wrap /\ ~(e - p.a < Desc)
  <2>1. i = p.a - lo.a /\ f = p.a /\ ~(e - lo.a < Desc) /\ base = lo.a
    BY <1>1, <1>2, <1>4, <1>7 DEF Index, From, Holds
  <2>2. i \in Nat /\ base + i = p.a
    BY <1>1, <1>4, <1>7, <2>1
  <2>3. i + z <= len /\ j = Goes(i, f, g, first)
    <3>1. CASE q.wrap = lo.wrap /\ ~(e - q.a < Desc)
      <4>1. j = q.a - lo.a /\ g = q.a
        BY <3>1 DEF Index, From
      <4>2. j = Goes(i, f, g, first)
        BY <1>1, <1>2, <1>3, <1>7, <2>1, <3>1, <4>1 DEF Goes
      <4>3. i + z <= len
        BY <1>1, <1>2, <1>3, <1>5, <1>7, <2>1, <3>1 DEF Holds
      <4>. QED  BY <4>2, <4>3
    <3>2. CASE q.wrap = lo.wrap /\ e - q.a < Desc
      <4>1. j = first + 0 /\ g = 0
        BY <3>2 DEF Index, From
      <4>2. j = Goes(i, f, g, first)
        BY <1>1, <2>1, <4>1 DEF Goes
      <4>3. i + z <= len
        BY <1>1, <1>2, <1>3, <1>5, <1>7, <2>1, <3>2 DEF Holds
      <4>. QED  BY <4>2, <4>3
    <3>3. CASE q.wrap # lo.wrap
      <4>1. j = first + q.a /\ g = q.a
        BY <1>1, <1>5, <3>3 DEF Index, From
      <4>2. j = Goes(i, f, g, first)
        BY <1>1, <1>2, <1>3, <1>7, <2>1, <3>3, <4>1 DEF Goes
      <4>3. i + z <= len
        BY <1>1, <1>2, <1>3, <1>5, <1>7, <2>1, <3>3 DEF Holds
      <4>. QED  BY <4>2, <4>3
    <3>. QED  BY <3>1, <3>2, <3>3
  <2>4. \A k \in 0..(z - 1) : Cell(e, base + i + k) = Cell(e, f + k)
    BY <2>1, <2>2
  <2>. QED  BY <2>2, <2>3, <2>4 DEF InBuffer
<1>8. CASE ~(p.wrap = lo.wrap /\ ~(e - p.a < Desc))
  <2>1. q.wrap # lo.wrap /\ hi.wrap # lo.wrap /\ q.a <= hi.a /\ ~(e - q.a < Desc)
    <3>1. q.wrap # lo.wrap
      BY <1>1, <1>3, <1>5, <1>8
    <3>. QED  BY <1>5, <3>1
  <2>2. i = first + f /\ j = first + q.a /\ g = q.a
    BY <1>8, <2>1 DEF Index, From
  <2>3. f + z = q.a /\ f \in Nat
    <3>1. CASE p.wrap = lo.wrap
      BY <1>1, <1>2, <1>3, <1>8, <2>1, <3>1 DEF From
    <3>2. CASE p.wrap # lo.wrap
      BY <1>1, <1>2, <1>3, <1>5, <2>1, <3>2 DEF From
    <3>. QED  BY <3>1, <3>2
  <2>4. first \in Nat /\ len = first + hi.a /\ (base + first = e \/ base + first = 0)
    BY <1>1, <2>1 DEF Holds
  <2>5. i \in Nat /\ i + z <= len
    BY <1>1, <1>3, <2>1, <2>2, <2>3, <2>4
  <2>6. j = Goes(i, f, g, first)
    BY <1>1, <1>2, <1>3, <2>2, <2>3, <2>4 DEF Goes
  <2>7. \A k \in 0..(z - 1) : Cell(e, base + i + k) = Cell(e, f + k)
    <3>1. TAKE k \in 0..(z - 1)
    <3>2. k \in Nat /\ f + k < e /\ base + i + k = (base + first) + (f + k)
      BY <1>1, <1>3, <1>6, <2>1, <2>2, <2>3, <2>4
    <3>. QED  BY <2>3, <2>4, <3>2 DEF Cell
  <2>. QED  BY <2>5, <2>6, <2>7 DEF InBuffer
<1>. QED  BY <1>7, <1>8

\* The buffer d has what is between lo and hi.
Copied(mm, e, lo, hi, base, d) ==
    /\ base \in Nat /\ Len(d.data) \in Nat
    /\ Holds(e, lo, hi, base, d.first, Len(d.data))
    /\ d.end = e /\ d.start = From(e, lo.a)
    /\ \A i \in 0..(Len(d.data) - 1) : d.data[i + 1] = mm[Cell(e, base + i)]

\* The n cells of mm from a cell on.
IsCopy(s, mm, from, n) ==
    /\ s \in Seq({ mm[a] : a \in Nat }) /\ Len(s) = n
    /\ \A i \in 0..(n - 1) : s[i + 1] = mm[from + i]

\* That is what Copy is.
LEMMA CopyIsCopy ==
  ASSUME NEW mm, NEW from \in Nat, NEW to \in Nat, from <= to, NEW n, n = to - from
  PROVE  IsCopy(Copy(mm, from, to), mm, from, n)
<1>1. n \in Nat
  OBVIOUS
<1>2. \A i \in 1..n : from + i - 1 \in Nat
  OBVIOUS
<1>3. Copy(mm, from, to) \in [1..n -> { mm[a] : a \in Nat }]
  BY <1>2 DEF Copy
<1>4. \A i \in 0..(n - 1) : i + 1 \in 1..n /\ from + (i + 1) - 1 = from + i
  BY <1>1
<1>5. \A i \in 0..(n - 1) : Copy(mm, from, to)[i + 1] = mm[from + i]
  BY <1>4 DEF Copy
<1>6. Copy(mm, from, to) \in Seq({ mm[a] : a \in Nat }) /\ Len(Copy(mm, from, to)) = n
  BY <1>1, <1>3
<1>. QED  BY <1>5, <1>6 DEF IsCopy

\* The n cells of the ring from a cell on.
IsLap(s, mm, e, from, n) ==
    /\ n \in Nat /\ Len(s) = n
    /\ \A i \in 0..(n - 1) : s[i + 1] = mm[Cell(e, from + i)]

\* Two copies one after the other, the second from cell 0 on.
LEMMA CopiesJoined ==
  ASSUME NEW mm, NEW e \in Nat, NEW lo \in Nat, lo <= e, NEW hi \in Nat, NEW s, NEW t,
         NEW n, n = e - lo, IsCopy(s, mm, lo, n), IsCopy(t, mm, 0, hi), hi <= e
  PROVE  IsLap(s \o t, mm, e, lo, n + hi)
<1>1. /\ s \in Seq({ mm[a] : a \in Nat }) /\ Len(s) = n /\ n \in Nat
      /\ \A i \in 0..(n - 1) : s[i + 1] = mm[lo + i]
  BY DEF IsCopy
<1>2. /\ t \in Seq({ mm[a] : a \in Nat }) /\ Len(t) = hi
      /\ \A i \in 0..(hi - 1) : t[i + 1] = mm[0 + i]
  BY DEF IsCopy
<1>3. /\ Len(s \o t) = n + hi
      /\ \A i \in 1..(n + hi) : (s \o t)[i] = IF i <= n THEN s[i] ELSE t[i - n]
  <2>1. /\ Len(s \o t) = Len(s) + Len(t)
        /\ \A i \in 1..(Len(s) + Len(t)) :
              (s \o t)[i] = IF i <= Len(s) THEN s[i] ELSE t[i - Len(s)]
    BY <1>1, <1>2, ConcatProperties, Zenon
  <2>. QED  BY <1>1, <1>2, <2>1
<1>4. ASSUME NEW i \in 0..((n + hi) - 1) PROVE (s \o t)[i + 1] = mm[Cell(e, lo + i)]
  <2>1. i \in Nat /\ i + 1 \in 1..(n + hi)
    BY <1>1
  <2>2. (s \o t)[i + 1] = IF i + 1 <= n THEN s[i + 1] ELSE t[(i + 1) - n]
    BY <1>3, <2>1
  <2>3. CASE i < n
    <3>1. i + 1 <= n /\ i \in 0..(n - 1) /\ Cell(e, lo + i) = lo + i
      BY <1>1, <2>1, <2>3 DEF Cell
    <3>. QED  BY <1>1, <2>2, <3>1
  <2>4. CASE ~(i < n)
    <3>1. PICK k : k = i - n
      OBVIOUS
    <3>2. /\ k \in 0..(hi - 1) /\ (i + 1) - n = k + 1 /\ ~(i + 1 <= n) /\ 0 + k = k
          /\ Cell(e, lo + i) = k
      BY <1>1, <2>1, <2>4, <3>1 DEF Cell
    <3>. QED  BY <1>2, <2>2, <3>2
  <2>. QED  BY <2>3, <2>4
<1>5. n + hi \in Nat
  BY <1>1
<1>. QED  BY <1>3, <1>4, <1>5 DEF IsLap

\* What the interrupt task loads is what is between the two positions.
LEMMA LoadedCopied ==
  ASSUME NEW mm, NEW e \in Nat, NEW lo, NEW hi, Lap(e, lo, hi),
         hi.wrap = lo.wrap => lo.a + Desc <= hi.a,
         NEW d, d = Loaded(mm, e, lo.a, hi.a)
  PROVE  \E base : Copied(mm, e, lo, hi, base, d)
<1>1. /\ lo.a \in Nat /\ hi.a \in Nat /\ lo.wrap \in BOOLEAN /\ hi.wrap \in BOOLEAN
      /\ lo.a <= e /\ hi.a <= e /\ Desc \in Nat /\ 0 < Desc
      /\ hi.wrap # lo.wrap => 0 < hi.a /\ hi.a <= lo.a
  BY RxBufAssumption DEF Lap, Pos
<1>2. CASE hi.wrap = lo.wrap
  <2>1. lo.a < hi.a /\ ~(e - lo.a < Desc)
    BY <1>1, <1>2
  <2>2. d = [data |-> Copy(mm, lo.a, hi.a), first |-> hi.a - lo.a, start |-> lo.a, end |-> e]
    BY <2>1 DEF Loaded
  <2>3. /\ Len(d.data) = hi.a - lo.a
        /\ \A i \in 0..((hi.a - lo.a) - 1) : d.data[i + 1] = mm[lo.a + i]
    <3>1. IsCopy(Copy(mm, lo.a, hi.a), mm, lo.a, hi.a - lo.a)
      BY <1>1, <2>1, CopyIsCopy
    <3>. QED  BY <2>2, <3>1 DEF IsCopy
  <2>4. \A i \in 0..((hi.a - lo.a) - 1) : Cell(e, lo.a + i) = lo.a + i
    BY <1>1 DEF Cell
  <2>5. Holds(e, lo, hi, lo.a, d.first, Len(d.data))
    BY <1>2, <2>1, <2>2, <2>3 DEF Holds
  <2>6. d.end = e /\ d.start = From(e, lo.a)
    BY <2>1, <2>2 DEF From
  <2>7. Copied(mm, e, lo, hi, lo.a, d)
    BY <1>1, <2>1, <2>3, <2>4, <2>5, <2>6 DEF Copied
  <2>. QED  BY <2>7
<1>3. CASE hi.wrap # lo.wrap /\ e - lo.a < Desc
  <2>1. ~(hi.a > lo.a) /\ hi.a > 0
    BY <1>1, <1>3
  <2>2. d = [data |-> Copy(mm, 0, hi.a), first |-> 0, start |-> 0, end |-> e]
    BY <1>3, <2>1 DEF Loaded
  <2>3. /\ Len(d.data) = hi.a
        /\ \A i \in 0..(hi.a - 1) : d.data[i + 1] = mm[i]
    <3>1. hi.a = hi.a - 0 /\ 0 <= hi.a /\ \A i \in 0..(hi.a - 1) : 0 + i = i
      BY <1>1
    <3>2. IsCopy(Copy(mm, 0, hi.a), mm, 0, hi.a)
      BY <1>1, <3>1, CopyIsCopy
    <3>. QED  BY <2>2, <3>1, <3>2 DEF IsCopy
  <2>4. \A i \in 0..(hi.a - 1) : Cell(e, 0 + i) = i
    BY <1>1 DEF Cell
  <2>5. Holds(e, lo, hi, 0, d.first, Len(d.data))
    BY <1>3, <2>2, <2>3 DEF Holds
  <2>6. d.end = e /\ d.start = From(e, lo.a)
    BY <1>3, <2>2 DEF From
  <2>7. Copied(mm, e, lo, hi, 0, d)
    BY <1>1, <2>3, <2>4, <2>5, <2>6 DEF Copied
  <2>. QED  BY <2>7
<1>4. CASE hi.wrap # lo.wrap /\ ~(e - lo.a < Desc)
  <2>1. ~(hi.a > lo.a)
    BY <1>1, <1>4
  <2>. DEFINE s == Copy(mm, lo.a, e)
              t == Copy(mm, 0, hi.a)
  <2>2. d = [data |-> s \o t, first |-> e - lo.a, start |-> lo.a, end |-> e]
    BY <1>4, <2>1 DEF Loaded
  <2>3. IsCopy(s, mm, lo.a, e - lo.a)
    BY <1>1, CopyIsCopy
  <2>4. IsCopy(t, mm, 0, hi.a)
    <3>1. hi.a = hi.a - 0 /\ 0 <= hi.a
      BY <1>1
    <3>. QED  BY <1>1, <3>1, CopyIsCopy
  <2>. HIDE DEF s, t
  <2>5. PICK n : n = e - lo.a
    OBVIOUS
  <2>6. IsLap(s \o t, mm, e, lo.a, n + hi.a)
    BY <1>1, <2>3, <2>4, <2>5, CopiesJoined
  <2>7. Holds(e, lo, hi, lo.a, d.first, Len(d.data))
    BY <1>4, <2>2, <2>5, <2>6 DEF Holds, IsLap
  <2>8. d.end = e /\ d.start = From(e, lo.a)
    BY <1>4, <2>2 DEF From
  <2>9. d.data = s \o t
    BY <2>2
  <2>a. Copied(mm, e, lo, hi, lo.a, d)
    BY <1>1, <2>6, <2>7, <2>8, <2>9 DEF Copied, IsLap
  <2>. QED  BY <2>a
<1>. QED  BY <1>2, <1>3, <1>4

\* Packet n is in the data from index i on, and the one after it is at next.
Item(data, i, n, next) ==
    /\ i \in Nat /\ i < Len(data) /\ IsPacket(data, i)
    /\ data[i + 1].pkt.n = n /\ data[i + 1].pkt.next = next

\* A packet of the ring is in the buffer as it was in the ring.
LEMMA PacketRead ==
  ASSUME NEW mm, NEW e \in Nat, NEW lo, NEW hi, NEW base, NEW d, Copied(mm, e, lo, hi, base, d),
         NEW p, p.a \in Nat, p.a <= e, NEW n, n \in Nat, n > 0, NEW next,
         Packet(mm, e, p.a, n, next), SmallEnd <= e, NEW q, NEW z,
         z = mm[From(e, p.a)].pkt.size,
         InBuffer(e, lo, p, q, z, base, d.first, Len(d.data))
  PROVE  Item(d.data, Index(e, lo, d.first, p), n, next)
<1>0. PICK i, f, b, dd, len : /\ i = Index(e, lo, d.first, p) /\ f = From(e, p.a)
                              /\ b = mm[f].pkt /\ dd = d.data /\ len = Len(dd)
  OBVIOUS
<1>1. /\ Desc \in Nat /\ 0 < Desc /\ SmallEnd \in Nat /\ 2 * Desc <= SmallEnd
  BY RxBufAssumption
<1>2. /\ b.n = n /\ b.next = next /\ z = b.size /\ z \in Nat /\ Desc <= z
      /\ \A k \in 0..(z - 1) : mm[Cell(e, f + k)] = [pkt |-> b, k |-> k]
  BY <1>0, <1>1 DEF Packet
<1>3. f \in Nat /\ f < e
  BY <1>0, <1>1 DEF From
<1>4. /\ i \in Nat /\ i + z <= len
      /\ \A k \in 0..(z - 1) : Cell(e, base + i + k) = Cell(e, f + k)
  BY <1>0 DEF InBuffer
<1>5. /\ base \in Nat /\ len \in Nat
      /\ \A j \in 0..(len - 1) : dd[j + 1] = mm[Cell(e, base + j)]
  BY <1>0 DEF Copied
<1>6. ASSUME NEW k \in 0..(z - 1) PROVE dd[i + 1 + k] = [pkt |-> b, k |-> k]
  <2>1. PICK j : j = i + k
    OBVIOUS
  <2>2. j \in 0..(len - 1) /\ j + 1 = i + 1 + k /\ base + j = base + i + k
    <3>1. i \in Nat /\ i + z <= len /\ base \in Nat /\ len \in Nat /\ z \in Nat
      BY <1>2, <1>4, <1>5
    <3>2. k \in Nat /\ k < z
      BY <3>1
    <3>3. i + k \in 0..(len - 1) /\ (i + k) + 1 = i + 1 + k /\ base + (i + k) = base + i + k
      BY <3>1, <3>2
    <3>. QED  BY <2>1, <3>3
  <2>3. dd[i + 1 + k] = mm[Cell(e, base + i + k)]
    BY <1>5, <2>2
  <2>. QED  BY <1>2, <1>4, <2>3
<1>7. dd[i + 1] = [pkt |-> b, k |-> 0]
  <2>1. 0 \in 0..(z - 1) /\ i + 1 + 0 = i + 1
    BY <1>1, <1>2, <1>4
  <2>. QED  BY <1>6, <2>1
<1>8. dd[i + 1].pkt = b
  BY <1>7
<1>9. b # Empty
  <2>1. Empty.n = 0
    BY DEF Empty
  <2>. QED  BY <1>2, <2>1
<1>a. i < len
  BY <1>1, <1>2, <1>4, <1>5
<1>b. len = Len(dd)
  BY <1>0
<1>c. IsPacket(dd, i)
  BY <1>2, <1>4, <1>6, <1>8, <1>9, <1>b DEF IsPacket
<1>d. Item(dd, i, n, next)
  BY <1>2, <1>4, <1>8, <1>a, <1>b, <1>c DEF Item
<1>. QED  BY <1>0, <1>d

\* The walk ends with the data.
LEMMA LastIndex ==
  ASSUME NEW e \in Nat, NEW lo, NEW hi, Lap(e, lo, hi),
         hi.wrap = lo.wrap => lo.a + Desc <= hi.a,
         NEW base, NEW first, NEW len, Holds(e, lo, hi, base, first, len)
  PROVE  /\ Index(e, lo, first, hi) \in Nat /\ Index(e, lo, first, hi) >= len
         /\ Index(e, lo, first, lo) = 0
<1>1. /\ lo.a \in Nat /\ hi.a \in Nat /\ lo.wrap \in BOOLEAN /\ hi.wrap \in BOOLEAN
      /\ lo.a <= e /\ hi.a <= e /\ Desc \in Nat /\ 0 < Desc
      /\ hi.wrap # lo.wrap => hi.a <= lo.a /\ ~(e - lo.a < Desc /\ e - hi.a < Desc)
  BY RxBufAssumption DEF Lap, Pos
<1>2. hi.wrap # lo.wrap => ~(e - hi.a < Desc)
  BY <1>1
<1>3. Index(e, lo, first, hi) \in Nat /\ Index(e, lo, first, hi) >= len
  <2>1. CASE hi.wrap = lo.wrap
    BY <1>1, <2>1 DEF Index, From, Holds
  <2>2. CASE hi.wrap # lo.wrap
    <3>1. Index(e, lo, first, hi) = first + hi.a
      BY <1>2, <2>2 DEF Index, From
    <3>. QED  BY <1>1, <2>2, <3>1 DEF Holds
  <2>. QED  BY <2>1, <2>2
<1>4. Index(e, lo, first, lo) = 0
  <2>1. CASE e - lo.a < Desc
    BY <1>1, <2>1 DEF Index, From, Holds
  <2>2. CASE ~(e - lo.a < Desc)
    BY <1>1, <2>2 DEF Index
  <2>. QED  BY <2>1, <2>2
<1>. QED  BY <1>3, <1>4

\* The ring between two positions, read into a buffer, is walked packet by packet.
LEMMA ReadWalk ==
  ASSUME NEW mm, NEW e \in Nat, SmallEnd <= e, NEW pos, NEW m, NEW s, Chain(mm, e, pos, m, s),
         NEW r \in (m + 1)..s, NEW d, d = Loaded(mm, e, pos[m + 1].a, pos[r + 1].a)
  PROVE  Walk(d, 0, d.start, m, r)
<1>1. /\ m \in Nat /\ s \in Nat /\ r \in Nat /\ m < r
      /\ m + 1 \in (m + 1)..(s + 1) /\ r + 1 \in (m + 1)..(s + 1) /\ m + 1 <= r + 1
      /\ m + 1 # r + 1
      /\ \A n \in (m + 1)..(r + 1) : n \in (m + 1)..(s + 1) /\ n \in Nat /\ n > 0
      /\ \A n \in (m + 1)..r : /\ n \in (m + 1)..s /\ n \in (m + 1)..(s + 1)
                              /\ n + 1 \in (m + 1)..(s + 1)
                              /\ n + 1 \in (m + 1)..(r + 1) /\ n \in (m + 1)..(r + 1)
                              /\ n <= n + 1 /\ n + 1 <= r + 1
  BY DEF Chain
<1>2. /\ Lap(e, pos[m + 1], pos[r + 1])
      /\ pos[r + 1].wrap = pos[m + 1].wrap => pos[m + 1].a + Desc <= pos[r + 1].a
  <2>1. pos[m + 1].wrap = pos[r + 1].wrap => pos[m + 1].a + Desc <= pos[r + 1].a
    BY <1>1, ChainOrder
  <2>. QED  BY <1>1, <2>1 DEF Chain
<1>3. PICK base : Copied(mm, e, pos[m + 1], pos[r + 1], base, d)
  BY <1>2, LoadedCopied
<1>. DEFINE lo == pos[m + 1]
            hi == pos[r + 1]
            len == Len(d.data)
            I(n) == Index(e, lo, d.first, pos[n])
            ix == [n \in (m + 1)..(r + 1) |-> I(n)]
            la == [n \in (m + 1)..(r + 1) |-> From(e, pos[n].a)]
<1>4. Holds(e, lo, hi, base, d.first, len) /\ d.end = e /\ d.start = From(e, lo.a)
  BY <1>3 DEF Copied
<1>5. I(r + 1) \in Nat /\ I(r + 1) >= len /\ I(m + 1) = 0
  BY <1>2, <1>4, LastIndex
<1>6. ASSUME NEW n \in (m + 1)..r
      PROVE  /\ I(n) \in Nat /\ Item(d.data, I(n), n, pos[n + 1].a)
             /\ I(n + 1) = Goes(I(n), From(e, pos[n].a), From(e, pos[n + 1].a), d.first)
             /\ pos[n + 1].a \in 0..e
  <2>1. n \in (m + 1)..s
    BY <1>1
  <2>2. /\ Packet(mm, e, pos[n].a, n, pos[n + 1].a) /\ pos[n].a <= e /\ pos[n + 1].a <= e
        /\ pos[n] \in Pos /\ pos[n + 1] \in Pos
    BY <2>1, ChainFacts
  <2>3. Spans(e, pos[n], pos[n + 1], Size(mm, e, pos, n))
    BY <2>1, ChainExtent
  <2>4. Ordered(e, lo, pos[n], pos[n + 1])
    BY <1>1, ChainOrder
  <2>5. Ordered(e, lo, pos[n + 1], hi)
    BY <1>1, ChainOrder
  <2>6. Lap(e, lo, pos[n]) /\ Lap(e, lo, pos[n + 1])
    BY <1>1 DEF Chain
  <2>7. InBuffer(e, lo, pos[n], pos[n + 1], Size(mm, e, pos, n), base, d.first, len)
    BY <1>2, <1>4, <2>3, <2>4, <2>5, <2>6, PacketInBuffer
  <2>8. pos[n].a \in Nat /\ n \in Nat /\ n > 0
    BY <1>1, <2>2 DEF Pos
  <2>9. Item(d.data, I(n), n, pos[n + 1].a)
    BY <1>3, <2>2, <2>7, <2>8, PacketRead DEF Size
  <2>a. pos[n + 1].a \in 0..e
    BY <2>2 DEF Pos
  <2>. QED  BY <2>7, <2>9, <2>a DEF InBuffer
<1>7. ix \in [(m + 1)..(r + 1) -> Nat]
  <2>1. ASSUME NEW n \in (m + 1)..(r + 1) PROVE I(n) \in Nat
    <3>1. n \in (m + 1)..r \/ n = r + 1
      BY <1>1
    <3>. QED  BY <1>5, <1>6, <3>1
  <2>. HIDE DEF I
  <2>. QED  BY <2>1
<1>8. la \in [(m + 1)..(r + 1) -> Nat]
  <2>1. ASSUME NEW n \in (m + 1)..(r + 1) PROVE From(e, pos[n].a) \in Nat
    <3>1. pos[n] \in Pos
      BY <1>1 DEF Chain
    <3>. QED  BY <3>1 DEF Pos, From
  <2>. QED  BY <2>1
<1>9. Follows(d.data, d.first, d.end, ix, la, m, r)
  <2>1. m + 1 \in (m + 1)..(r + 1) /\ r + 1 \in (m + 1)..(r + 1) /\ m <= r
    BY <1>1
  <2>2. ASSUME NEW n \in (m + 1)..r
        PROVE  LET p == d.data[ix[n] + 1].pkt IN
               /\ ix[n] < Len(d.data) /\ IsPacket(d.data, ix[n])
               /\ p.n = n /\ p.next \in 0..d.end
               /\ la[n + 1] = NextPos(p.next, d.end)
               /\ ix[n + 1] = IF la[n + 1] > la[n] THEN ix[n] + la[n + 1] - la[n]
                              ELSE d.first + la[n + 1]
    <3>1. /\ ix[n] = I(n) /\ ix[n + 1] = I(n + 1)
          /\ la[n] = From(e, pos[n].a) /\ la[n + 1] = From(e, pos[n + 1].a)
      BY <1>1
    <3>. HIDE DEF I, ix, la
    <3>2. /\ I(n) < Len(d.data) /\ IsPacket(d.data, I(n))
          /\ d.data[I(n) + 1].pkt.n = n /\ d.data[I(n) + 1].pkt.next = pos[n + 1].a
          /\ pos[n + 1].a \in 0..d.end
      BY <1>4, <1>6 DEF Item
    <3>3. la[n + 1] = NextPos(pos[n + 1].a, d.end)
      BY <1>4, <3>1 DEF NextPos, From
    <3>4. ix[n + 1] = IF la[n + 1] > la[n] THEN ix[n] + la[n + 1] - la[n]
                      ELSE d.first + la[n + 1]
      BY <1>6, <3>1 DEF Goes
    <3>. QED  BY <3>1, <3>2, <3>3, <3>4
  <2>3. ix[r + 1] >= Len(d.data)
    BY <1>5, <2>1
  <2>4. d.end \in Nat /\ Len(d.data) \in Nat
    BY <1>3, <1>4 DEF Copied
  <2>. HIDE DEF ix, la
  <2>. QED  BY <1>1, <1>7, <1>8, <2>1, <2>2, <2>3, <2>4 DEF Follows
<1>a. ix[m + 1] = 0 /\ la[m + 1] = d.start
  BY <1>1, <1>4, <1>5
<1>. HIDE DEF ix, la
<1>. QED  BY <1>9, <1>a DEF Walk

\* What follows a position of a chain is a chain.
LEMMA ChainRest ==
  ASSUME NEW mm, NEW e \in Nat, SmallEnd <= e, NEW pos, NEW m, NEW s, Chain(mm, e, pos, m, s),
         NEW r \in m..s, NEW pos2, pos2 = [n \in (r + 1)..(s + 1) |-> pos[n]]
  PROVE  Chain(mm, e, pos2, r, s)
<1>1. /\ m \in Nat /\ s \in Nat /\ r \in Nat /\ m <= r /\ r <= s
      /\ pos \in [(m + 1)..(s + 1) -> Pos]
      /\ r + 1 \in (m + 1)..(s + 1) /\ r + 1 \in (r + 1)..(s + 1)
      /\ \A n \in (r + 1)..(s + 1) : n \in (m + 1)..(s + 1) /\ r + 1 <= n
      /\ \A n \in (r + 1)..s : n \in (m + 1)..s /\ n \in (r + 1)..(s + 1)
                              /\ n + 1 \in (r + 1)..(s + 1)
  BY DEF Chain
<1>2. pos2 \in [(r + 1)..(s + 1) -> Pos] /\ \A n \in (r + 1)..(s + 1) : pos2[n] = pos[n]
  BY <1>1
<1>3. ASSUME NEW n \in (r + 1)..s
      PROVE  /\ Packet(mm, e, pos2[n].a, n, pos2[n + 1].a)
             /\ pos2[n + 1] = Advance(pos2[n], pos2[n + 1].a)
  <2>1. n \in (m + 1)..s /\ pos2[n] = pos[n] /\ pos2[n + 1] = pos[n + 1]
    BY <1>1, <1>2
  <2>2. /\ Packet(mm, e, pos[n].a, n, pos[n + 1].a)
        /\ pos[n + 1] = Advance(pos[n], pos[n + 1].a)
    BY <2>1 DEF Chain
  <2>. QED  BY <2>1, <2>2
<1>4. ASSUME NEW n \in (r + 1)..(s + 1)
      PROVE  Lap(e, pos[r + 1], pos[n]) /\ Ordered(e, pos[m + 1], pos[r + 1], pos[n])
  <2>1. Ordered(e, pos[m + 1], pos[r + 1], pos[n])
    BY <1>1, ChainOrder
  <2>2. Lap(e, pos[m + 1], pos[n])
    BY <1>1 DEF Chain
  <2>3. PICK lo, p, q : lo = pos[m + 1] /\ p = pos[r + 1] /\ q = pos[n]
    OBVIOUS
  <2>4. Ordered(e, lo, p, q) /\ Lap(e, lo, q)
    BY <2>1, <2>2, <2>3
  <2>5. /\ lo.a \in Nat /\ p.a \in Nat /\ q.a \in Nat /\ Desc \in Nat
        /\ lo.wrap \in BOOLEAN /\ p.wrap \in BOOLEAN /\ q.wrap \in BOOLEAN
    BY <2>4, RxBufAssumption DEF Ordered, Pos
  <2>6. ASSUME p.wrap # q.wrap
        PROVE  0 < q.a /\ q.a <= p.a /\ ~(e - p.a < Desc /\ e - q.a < Desc)
    <3>1. p.wrap = lo.wrap /\ 0 < q.a /\ q.a <= lo.a /\ lo.a <= p.a
      BY <2>4, <2>6 DEF Ordered
    <3>2. ~(e - lo.a < Desc /\ e - q.a < Desc)
      BY <2>4, <2>6, <3>1 DEF Lap
    <3>. QED  BY <2>5, <3>1, <3>2
  <2>7. p \in Pos /\ q \in Pos /\ p.a <= e /\ q.a <= e /\ (p.wrap = q.wrap => p.a <= q.a)
    BY <2>4 DEF Ordered
  <2>8. Lap(e, p, q)
    BY <2>6, <2>7 DEF Lap
  <2>. QED  BY <2>1, <2>3, <2>8
<1>5. ASSUME NEW i \in (r + 1)..(s + 1), NEW j \in (r + 1)..(s + 1), i < j
      PROVE  Before(pos[r + 1], pos[i], pos[j])
  <2>1. Before(pos[m + 1], pos[i], pos[j])
    BY <1>1, <1>5 DEF Chain
  <2>2. Ordered(e, pos[m + 1], pos[r + 1], pos[i])
    BY <1>4
  <2>3. PICK lo, r1, p, q : lo = pos[m + 1] /\ r1 = pos[r + 1] /\ p = pos[i] /\ q = pos[j]
    OBVIOUS
  <2>4. Before(lo, p, q) /\ Ordered(e, lo, r1, p)
    BY <2>1, <2>2, <2>3
  <2>5. q.wrap \in BOOLEAN
    <3>1. pos[j] \in Pos
      BY <1>1
    <3>. QED  BY <2>3, <3>1 DEF Pos
  <2>6. /\ lo.wrap \in BOOLEAN /\ p.wrap \in BOOLEAN /\ r1.wrap \in BOOLEAN
    BY <2>4 DEF Ordered, Pos
  <2>7. Before(r1, p, q)
    BY <2>4, <2>5, <2>6 DEF Ordered, Before
  <2>. QED  BY <2>3, <2>7
<1>6. \A n \in (r + 1)..(s + 1) : Lap(e, pos2[r + 1], pos2[n])
  BY <1>1, <1>2, <1>4
<1>7. \A i, j \in (r + 1)..(s + 1) : i < j => Before(pos2[r + 1], pos2[i], pos2[j])
  BY <1>1, <1>2, <1>5
<1>. QED  BY <1>1, <1>2, <1>3, <1>6, <1>7 DEF Chain

\* An empty ring, of any length and at any position.
Only(s, p) == [n \in (s + 1)..(s + 1) |-> p]

\* A ring of which nothing is published and unread is a chain.
LEMMA ChainEmpty ==
  ASSUME NEW mm, NEW e \in Nat, NEW s \in Nat, NEW p \in Pos, p.a <= e
  PROVE  Chain(mm, e, Only(s, p), s, s) /\ Only(s, p)[s + 1] = p
<1>. DEFINE pos == Only(s, p)
<1>1. \A n \in (s + 1)..(s + 1) : n = s + 1
  OBVIOUS
<1>2. s + 1 \in (s + 1)..(s + 1) /\ ~ \E n \in (s + 1)..s : TRUE
  OBVIOUS
<1>3. pos \in [(s + 1)..(s + 1) -> Pos] /\ pos[s + 1] = p
  BY <1>2 DEF Only
<1>. HIDE DEF pos
<1>4. Lap(e, p, p)
  BY DEF Lap, Pos
<1>5. \A n \in (s + 1)..(s + 1) : Lap(e, pos[s + 1], pos[n])
  BY <1>1, <1>3, <1>4
<1>6. \A i, j \in (s + 1)..(s + 1) : ~(i < j)
  OBVIOUS
<1>. QED  BY <1>2, <1>3, <1>5, <1>6 DEF Chain, pos

\* The positions of a chain differ.
LEMMA ChainDistinct ==
  ASSUME NEW mm, NEW e \in Nat, SmallEnd <= e, NEW pos, NEW m, NEW s, Chain(mm, e, pos, m, s),
         NEW i \in m..s, NEW j \in m..s, pos[i + 1] = pos[j + 1]
  PROVE  i = j
<1>1. \A x, y \in m..s : x < y => pos[x + 1] # pos[y + 1]
  <2>1. SUFFICES ASSUME NEW x \in m..s, NEW y \in m..s, x < y, pos[x + 1] = pos[y + 1]
                 PROVE  FALSE
    OBVIOUS
  <2>2. /\ x + 1 \in (m + 1)..(s + 1) /\ y + 1 \in (m + 1)..(s + 1) /\ x + 1 < y + 1
        /\ m \in Nat /\ s \in Nat
    BY <2>1 DEF Chain
  <2>3. Before(pos[m + 1], pos[x + 1], pos[y + 1])
    BY <2>2 DEF Chain
  <2>4. pos[x + 1].a + Desc <= pos[x + 1].a
    BY <2>1, <2>3 DEF Before
  <2>5. pos[x + 1].a \in Nat
    BY <2>2 DEF Chain, Pos
  <2>. QED  BY <2>4, <2>5, RxBufAssumption
<1>2. i \in Nat /\ j \in Nat
  BY DEF Chain
<1>. QED  BY <1>1, <1>2

-----------------------------------------------------------------------------
(* The invariant, and the steps of the firmware                             *)

\* The lengths of the ring.
LEMMA Lengths ==
  ASSUME Geometry
  PROVE  /\ fwEnd \in Nat /\ SmallEnd <= fwEnd /\ fwEnd <= LargeEnd
         /\ SmallEnd \in Nat /\ LargeEnd \in Nat /\ SmallEnd <= LargeEnd /\ SmallEnd # LargeEnd
         /\ 0 < SmallEnd
<1>1. fwEnd = SmallEnd \/ fwEnd = LargeEnd
  BY DEF Geometry
<1>. QED  BY <1>1, RxBufAssumption

\* At the start the ring is empty and there are no buffers in use.
LEMMA RxInitInv ==
  ASSUME Init
  PROVE  RxInv
<1>1. Shapes
  BY DEF Init, Shapes, Start, Pos, NoBuf
<1>2. Lists
  <2>1. NbBufs \in Nat
    BY RxBufAssumption
  <2>2. freeList \in Seq(Bufs) /\ \A i \in DOMAIN freeList : freeList[i] = i
    BY <2>1 DEF Init, Bufs
  <2>3. usedList = << >> /\ cur = NoBuf
    BY DEF Init
  <2>. QED  BY <2>2, <2>3 DEF Lists
<1>3. Geometry
  BY DEF Init, Geometry, InitBufState
<1>4. PICK pos : pos = Only(0, Start)
  OBVIOUS
<1>5. Start \in Pos /\ Start.a <= LargeEnd /\ LargeEnd \in Nat
  BY RxBufAssumption DEF Start, Pos
<1>6. Chain(mem, LargeEnd, pos, 0, 0) /\ pos[0 + 1] = Start
  BY <1>4, <1>5, ChainEmpty
<1>7. Places(pos, 0)
  <2>1. /\ fwEnd = LargeEnd /\ sent = 0 /\ bufPos = Start /\ fwPos = Start
        /\ reg.pos = fwPos /\ newPos = Start /\ ~irq
    BY DEF Init
  <2>2. 0 \in 0..sent
    BY <2>1
  <2>. QED  BY <1>6, <2>1, <2>2 DEF Places
<1>8. PICK c : c = [j \in 0..0 |-> 0]
  OBVIOUS
<1>9. Queue(c, 0)
  <2>1. usedList = << >> /\ cur = NoBuf /\ handled = << >> /\ Len(usedList) = 0 /\ Len(handled) = 0
    BY DEF Init
  <2>2. c \in [0..0 -> Nat] /\ c[0] = 0 /\ \A j \in 0..0 : c[j] <= 0
    BY <1>8
  <2>3. ~ \E j \in 1..0 : TRUE
    OBVIOUS
  <2>. QED  BY <2>1, <2>2, <2>3 DEF Queue
<1>. QED  BY <1>1, <1>2, <1>3, <1>7, <1>9 DEF RxInv

\* A packet is published.
LEMMA PublishPlaces ==
  ASSUME NEW t, NEW sn, NEW size \in Sizes, FwPublish(t, sn, size), Shapes, Geometry,
         NEW pos, NEW m, Places(pos, m)
  PROVE  sent' = sent + 1 /\ \E pos2 : Places(pos2, m)'
<1>1. PICK f : Write(f, size)
  BY DEF FwPublish, Receive
<1>2. fwEnd \in Nat /\ SmallEnd <= fwEnd /\ fwEnd <= LargeEnd
  BY Lengths
<1>3. Chain(mem, fwEnd, pos, m, sent) /\ pos[m + 1] = bufPos /\ pos[sent + 1] = fwPos
  BY DEF Places
<1>4. sent' = sent + 1 /\ \E pos2 : Extends(mem', fwEnd, pos, pos2, m, sent, fwPos')
  BY <1>1, <1>2, <1>3, RingPublish DEF Shapes
<1>5. PICK pos2 : Extends(mem', fwEnd, pos, pos2, m, sent, fwPos')
  BY <1>4
<1>6. /\ Chain(mem', fwEnd, pos2, m, sent + 1) /\ pos2[(sent + 1) + 1] = fwPos'
      /\ \A n \in (m + 1)..(sent + 1) : pos2[n] = pos[n]
  BY <1>5 DEF Extends
<1>7. m \in Nat /\ sent \in Nat /\ m <= sent /\ m + 1 \in (m + 1)..(sent + 1)
  BY <1>3 DEF Chain
<1>8. PICK r \in m..sent : newPos = pos[r + 1] /\ (irq => r < sent)
  BY DEF Places
<1>9. r \in m..(sent + 1) /\ r < sent + 1 /\ r + 1 \in (m + 1)..(sent + 1)
  BY <1>7
<1>a. /\ fwEnd' = fwEnd /\ bufPos' = bufPos /\ newPos' = newPos /\ pending' = pending
      /\ reg'.pos = fwPos'
  BY DEF FwPublish, irqVars
<1>b. Places(pos2, m)'
  <2>1. pos2[m + 1] = bufPos' /\ newPos' = pos2[r + 1]
    BY <1>3, <1>6, <1>7, <1>8, <1>9, <1>a
  <2>2. ~pending' => newPos' = bufPos'
    BY <1>a DEF Places
  <2>. QED  BY <1>4, <1>6, <1>9, <1>a, <2>1, <2>2 DEF Places
<1>. QED  BY <1>4, <1>b

\* The geometry, when a packet is published.
LEMMA PublishGeometry ==
  ASSUME NEW t, NEW sn, NEW size, FwPublish(t, sn, size), Geometry
  PROVE  Geometry'
<1>1. PICK status \in FwStatus : Shows(status) /\ reg' = [pos |-> fwPos', status |-> status]
  BY DEF FwPublish
<1>2. /\ phase \notin {"narrowing", "expanding"} /\ irq'
      /\ UNCHANGED <<fwEnd, bufState, rxEnd, buf>>
  BY DEF FwPublish, irqVars, bufVars
<1>3. reg'.status = status
  BY <1>1
<1>4. CASE status = Shown /\ phase' = phase
  BY <1>2, <1>3, <1>4 DEF Geometry, Shown, AllEnd
<1>5. CASE ~(status = Shown /\ phase' = phase)
  <2>1. /\ \A b \in Bufs : buf[b].end = fwEnd
        /\ \/ phase = "large" /\ phase' = "narrowing" /\ status = "FW_NARROW"
           \/ phase = "small" /\ phase' = "expanding" /\ status = "FW_EXPAND"
    BY <1>1, <1>5 DEF Shows
  <2>. QED  BY <1>2, <1>3, <2>1 DEF Geometry, AllEnd
<1>. QED  BY <1>4, <1>5

\* The places in the ring stay while their variables do.
LEMMA PlacesKept ==
  ASSUME UNCHANGED <<mem, fwEnd, sent, fwPos, bufPos, reg, irq, newPos, pending>>,
         NEW pos, NEW m, Places(pos, m)
  PROVE  Places(pos, m)'
BY DEF Places

\* The same for the buffers and the walk.
LEMMA QueueKept ==
  ASSUME UNCHANGED <<usedList, cur, handled, buf>>, NEW c, NEW m, Queue(c, m)
  PROVE  Queue(c, m)'
BY DEF Queue

\* The same for the lists.
LEMMA ListsKept ==
  ASSUME UNCHANGED <<usedList, cur, freeList>>, Lists
  PROVE  Lists'
BY DEF Lists

\* The same for the exchange of memory.
LEMMA GeometryKept ==
  ASSUME UNCHANGED <<phase, fwEnd, rxEnd, bufState, reg, irq, pending, newPos, fwPos, bufPos, buf>>,
         Geometry
  PROVE  Geometry'
BY DEF Geometry, AllEnd

\* The same for the shapes of the variables.
LEMMA ShapesKept ==
  ASSUME UNCHANGED <<bufPos, buf, cur, handled>>, DOMAIN mem' = DOMAIN mem, Shapes
  PROVE  Shapes'
BY DEF Shapes

\* Publishing keeps the invariant, and is Publish of the channel.
LEMMA PublishStep ==
  ASSUME NEW t, NEW sn, NEW size \in Sizes, FwPublish(t, sn, size), RxInv
  PROVE  RxInv' /\ Channel!Publish
<1>1. Shapes /\ Lists /\ Geometry
  BY DEF RxInv
<1>2. PICK m, pos, c : Places(pos, m) /\ Queue(c, m)
  BY DEF RxInv
<1>3. sent' = sent + 1 /\ \E pos2 : Places(pos2, m)'
  BY <1>1, <1>2, PublishPlaces
<1>4. UNCHANGED <<irqVars, bufVars, rxVars>>
  BY DEF FwPublish
<1>5. Queue(c, m)' /\ Lists'
  BY <1>1, <1>2, <1>4, QueueKept, ListsKept DEF bufVars, rxVars
<1>6. Geometry'
  BY <1>1, PublishGeometry
<1>7. DOMAIN mem' = DOMAIN mem
  BY DEF FwPublish, Receive, Write
<1>8. Shapes'
  BY <1>1, <1>4, <1>7, ShapesKept DEF irqVars, bufVars, rxVars
<1>9. RxInv'
  BY <1>3, <1>5, <1>6, <1>8 DEF RxInv
<1>. QED  BY <1>3, <1>4, <1>9 DEF Channel!Publish, rxVars

\* A time-out of the firmware and its message leave the ring alone.
LEMMA MessageStep ==
  ASSUME (\E t \in Tid : FwFlush(t)) \/ IrqMsg, RxInv
  PROVE  RxInv' /\ UNCHANGED <<sent, handled>>
<1>1. UNCHANGED <<mem, fwEnd, sent, fwPos, bufPos, reg, irq, newPos, pending, usedList, cur,
                  handled, buf, freeList, phase, rxEnd, bufState>>
  BY DEF FwFlush, IrqMsg, irqVars, bufVars, rxVars
<1>2. Shapes /\ Lists /\ Geometry
  BY DEF RxInv
<1>3. Shapes' /\ Lists' /\ Geometry'
  BY <1>1, <1>2, ShapesKept, ListsKept, GeometryKept
<1>4. PICK m, pos, c : Places(pos, m) /\ Queue(c, m)
  BY DEF RxInv
<1>5. Places(pos, m)' /\ Queue(c, m)'
  BY <1>1, <1>4, PlacesKept, QueueKept
<1>. QED  BY <1>1, <1>3, <1>5 DEF RxInv

-----------------------------------------------------------------------------
(* The steps of the interrupt task                                          *)

\* It takes the position that the firmware shows.
LEMMA AckStep ==
  ASSUME IrqAck, RxInv
  PROVE  RxInv' /\ UNCHANGED <<sent, handled>>
<1>1. Shapes /\ Lists /\ Geometry
  BY DEF RxInv
<1>2. PICK m, pos, c : Places(pos, m) /\ Queue(c, m)
  BY DEF RxInv
<1>3. /\ irq /\ ~pending /\ ~irq' /\ pending' /\ newPos' = reg.pos
      /\ bufState' = IF reg.status \in FwStatus THEN AckStatus(bufState, reg.status)
                     ELSE bufState
      /\ UNCHANGED <<mem, fwEnd, sent, fwPos, bufPos, reg, usedList, cur, handled, buf,
                     freeList, phase, rxEnd>>
  BY DEF IrqAck, bufVars, rxVars
<1>4. Shapes' /\ Lists' /\ Queue(c, m)'
  BY <1>1, <1>2, <1>3, ShapesKept, ListsKept, QueueKept
<1>5. Chain(mem, fwEnd, pos, m, sent) /\ pos[m + 1] = bufPos /\ pos[sent + 1] = fwPos
  BY <1>2 DEF Places
<1>6. reg.pos = fwPos /\ newPos = bufPos
  BY <1>2, <1>3 DEF Places
<1>7. m \in Nat /\ sent \in Nat /\ m <= sent
  BY <1>5 DEF Chain
<1>8. Places(pos, m)'
  BY <1>2, <1>3, <1>7 DEF Places
<1>9. bufPos # fwPos
  <2>1. PICK r \in m..sent : newPos = pos[r + 1] /\ r < sent
    BY <1>2, <1>3 DEF Places
  <2>2. fwEnd \in Nat /\ SmallEnd <= fwEnd
    BY <1>1, Lengths
  <2>3. sent \in m..sent
    BY <1>7
  <2>4. pos[r + 1] = pos[sent + 1] => r = sent
    BY <1>5, <2>2, <2>3, ChainDistinct
  <2>. QED  BY <1>5, <1>6, <1>7, <2>1, <2>4
<1>a. Geometry'
  <2>1. reg.status \in bufState \/ reg.status = "NONE" => bufState' = bufState
    BY <1>3 DEF AckStatus, FwStatus
  <2>2. CASE phase \notin {"narrowing", "expanding"}
    BY <1>1, <1>3, <2>1, <2>2 DEF Geometry, AllEnd
  <2>3. CASE phase = "narrowing"
    <3>1. bufState = {"FW_EXPAND"} /\ reg.status = "FW_NARROW"
      BY <1>1, <1>3, <2>3 DEF Geometry
    <3>2. bufState' = {"FW_NARROW", "NARROW"}
      BY <1>3, <3>1 DEF AckStatus, FwStatus
    <3>. QED  BY <1>1, <1>3, <1>6, <1>9, <2>3, <3>2 DEF Geometry, AllEnd
  <2>4. CASE phase = "expanding"
    <3>1. bufState = {"FW_NARROW"} /\ reg.status = "FW_EXPAND"
      BY <1>1, <1>3, <2>4 DEF Geometry
    <3>2. bufState' = {"FW_EXPAND", "EXPAND"}
      BY <1>3, <3>1 DEF AckStatus, FwStatus
    <3>. QED  BY <1>1, <1>3, <1>6, <1>9, <2>4, <3>2 DEF Geometry, AllEnd
  <2>. QED  BY <2>2, <2>3, <2>4
<1>. QED  BY <1>3, <1>4, <1>8, <1>a DEF RxInv

\* The buffer is read with the end that the ring has.
LEMMA ReadEnd ==
  ASSUME Geometry, NEW b \in Bufs
  PROVE  EndOf(b) = fwEnd
<1>1. CASE bufState = {"FW_EXPAND"} \/ bufState = {"FW_NARROW"}
  <2>1. bufState \cap BufStatus = {}
    BY <1>1 DEF BufStatus
  <2>2. EndOf(b) = rxEnd
    BY <2>1 DEF EndOf, FirstOfSwitch, RingEnd, NarrowDone, ExpandDone, SecondOfSwitch
  <2>3. phase \notin {"narrowed", "expanded"}
    BY <1>1 DEF Geometry
  <2>. QED  BY <2>2, <2>3 DEF Geometry
<1>2. CASE bufState = {"FW_NARROW", "NARROW"} \/ bufState = {"FW_EXPAND", "EXPAND"}
  <2>1. bufState \cap BufStatus # {} /\ "UPDATE" \notin bufState
    BY <1>2 DEF BufStatus
  <2>2. EndOf(b) = buf[b].end
    BY <2>1 DEF EndOf, FirstOfSwitch
  <2>3. phase \in {"narrowing", "expanding"}
    BY <1>2 DEF Geometry
  <2>. QED  BY <2>2, <2>3 DEF Geometry, AllEnd
<1>3. CASE phase = "narrowed"
  <2>1. bufState \cap BufStatus # {} /\ "UPDATE" \in bufState /\ "NARROW" \in bufState
    BY <1>3 DEF Geometry, BufStatus
  <2>. QED  BY <1>3, <2>1 DEF EndOf, FirstOfSwitch, RingEnd, NarrowDone, SecondOfSwitch, Geometry
<1>4. CASE phase = "expanded"
  <2>1. bufState \cap BufStatus # {} /\ "UPDATE" \in bufState /\ "NARROW" \notin bufState
    BY <1>4 DEF Geometry, BufStatus
  <2>. QED  BY <1>4, <2>1 DEF EndOf, FirstOfSwitch, RingEnd, NarrowDone, ExpandDone,
                              SecondOfSwitch, Geometry
<1>5. \/ bufState \in {{"FW_EXPAND"}, {"FW_NARROW"}, {"FW_NARROW", "NARROW"},
                      {"FW_EXPAND", "EXPAND"}}
      \/ phase \in {"narrowed", "expanded"}
  BY DEF Geometry
<1>. QED  BY <1>1, <1>2, <1>3, <1>4, <1>5

\* Both sides go on from the position that was read, in a ring of the same length.
Stays == /\ fwEnd' = fwEnd /\ fwPos' = fwPos /\ reg' = reg
         /\ newPos' = newPos /\ bufPos' = newPos

\* All was read, and both sides go on in a ring of another length.
Moves(p) == /\ newPos = fwPos /\ p \in Pos /\ p.a <= fwEnd'
            /\ fwPos' = p /\ newPos' = p /\ bufPos' = p /\ reg'.pos = p

\* The exchange, when the host reads the ring.
LEMMA ReadGeometry ==
  ASSUME Geometry, Read, pending, ~pending', UNCHANGED irq,
         freeList # << >>, freeList \in Seq(Bufs), DOMAIN buf = Bufs,
         newPos \in Pos, newPos.a <= fwEnd, reg.pos = fwPos, newPos = fwPos => ~irq
  PROVE  Geometry' /\ (Stays \/ \E p : Moves(p))
<1>. DEFINE b  == Head(freeList)
            st == CheckState(bufState)
            p  == IF Resets(st) THEN Start ELSE newPos
<1>1. b \in Bufs
  OBVIOUS
<1>2. /\ buf' = [buf EXCEPT ![b] = Filled(EndOf(b))] /\ rxEnd' = RingEnd
      /\ bufState' = TriggerState(st) /\ newPos' = p /\ bufPos' = p
      /\ reg' = IF Resets(st) THEN [pos |-> Start, status |-> "NONE"] ELSE reg
      /\ phase' = IF "REDUCE_READ" \in Told(st) THEN "narrowed"
                  ELSE IF "REDUCE_FINSH" \in Told(st) THEN "small"
                  ELSE IF "ENLARGE_READ" \in Told(st) THEN "expanded"
                  ELSE IF "ENLARGE_FINSH" \in Told(st) THEN "large" ELSE phase
      /\ fwEnd' = IF "REDUCE_READ" \in Told(st) THEN SmallEnd
                  ELSE IF "ENLARGE_READ" \in Told(st) THEN LargeEnd ELSE fwEnd
      /\ fwPos' = IF "REDUCE_READ" \in Told(st) /\ fwPos.a >= SmallEnd THEN Start ELSE fwPos
  BY DEF Read, Hear
<1>3. /\ SmallEnd \in Nat /\ LargeEnd \in Nat /\ SmallEnd <= LargeEnd /\ newPos.a \in Nat
  BY Lengths DEF Pos
<1>4. Filled(EndOf(b)).end = fwEnd
  <2>1. EndOf(b) = fwEnd
    BY <1>1, ReadEnd
  <2>. QED  BY <2>1 DEF Filled
<1>5. AllEnd(fwEnd) => \A x \in Bufs : buf'[x].end = fwEnd
  BY <1>1, <1>2, <1>4 DEF AllEnd
<1>. HIDE DEF b
<1>6. CASE bufState = {"FW_EXPAND"} \/ bufState = {"FW_NARROW"}
  <2>1. bufState \cap BufStatus = {} /\ st = bufState
    BY <1>6 DEF BufStatus, CheckState, FirstOfSwitch, SecondOfSwitch
  <2>2. Told(st) = {} /\ TriggerState(st) = bufState /\ ~Resets(st)
    <3>1. /\ "NARROW" \notin st /\ "NOTIFY" \notin st /\ "EXPAND" \notin st
          /\ "EXPEND_FINSH" \notin st
      BY <1>6, <2>1
    <3>. HIDE DEF st
    <3>. QED  BY <2>1, <3>1 DEF Told, TriggerState, Resets
  <2>3. RingEnd = rxEnd
    BY <2>1 DEF RingEnd, NarrowDone, ExpandDone, SecondOfSwitch
  <2>. HIDE DEF st
  <2>4. Stays /\ phase' = phase /\ rxEnd' = rxEnd /\ bufState' = bufState
    BY <1>2, <2>2, <2>3 DEF Stays
  <2>5. phase \notin {"narrowed", "expanded"} /\ (phase \in {"narrowing", "expanding"} => irq)
    <3>1. "UPDATE" \notin bufState /\ "NARROW" \notin bufState /\ "EXPAND" \notin bufState
      BY <1>6
    <3>. QED  BY <3>1 DEF Geometry
  <2>6. Geometry'
    BY <1>5, <2>4, <2>5 DEF Geometry, Stays, AllEnd
  <2>. QED  BY <2>4, <2>6
<1>7. CASE bufState = {"FW_NARROW", "NARROW"}
  <2>1. st = {"FW_NARROW", "NARROW", "UPDATE"}
    BY <1>7 DEF BufStatus, CheckState, FirstOfSwitch
  <2>2. Told(st) = {"REDUCE_READ"} /\ TriggerState(st) = st
    BY <2>1 DEF Told, TriggerState
  <2>3. Resets(st) <=> newPos.a >= SmallEnd
    BY <2>1 DEF Resets
  <2>4. phase = "narrowing" /\ newPos = fwPos /\ reg.status = "FW_NARROW"
    <3>1. "UPDATE" \notin bufState /\ "NARROW" \in bufState
      BY <1>7
    <3>2. phase = "narrowing"
      BY <3>1 DEF Geometry
    <3>. QED  BY <3>1, <3>2 DEF Geometry
  <2>. HIDE DEF st
  <2>5. phase' = "narrowed" /\ fwEnd' = SmallEnd /\ bufState' = st
    BY <1>2, <2>2
  <2>6. reg'.status \in {"FW_NARROW", "NONE"} /\ fwPos' = p /\ reg'.pos = p
    BY <1>2, <2>2, <2>3, <2>4
  <2>7. p \in Pos /\ p.a <= SmallEnd
    BY <1>3, <2>3 DEF Start, Pos
  <2>8. Moves(p)
    BY <1>2, <2>4, <2>5, <2>6, <2>7 DEF Moves
  <2>9. Geometry'
    BY <2>1, <2>5, <2>6 DEF Geometry
  <2>. QED  BY <2>8, <2>9
<1>8. CASE bufState = {"FW_EXPAND", "EXPAND"}
  <2>1. st = {"FW_EXPAND", "EXPAND", "UPDATE"}
    BY <1>8 DEF BufStatus, CheckState, FirstOfSwitch
  <2>2. Told(st) = {"ENLARGE_READ"} /\ TriggerState(st) = st /\ ~Resets(st)
    BY <2>1 DEF Told, TriggerState, Resets
  <2>3. phase = "expanding" /\ newPos = fwPos /\ reg.status = "FW_EXPAND" /\ fwEnd = SmallEnd
    <3>1. "UPDATE" \notin bufState /\ "EXPAND" \in bufState
      BY <1>8
    <3>2. phase = "expanding"
      BY <3>1 DEF Geometry
    <3>. QED  BY <3>1, <3>2 DEF Geometry
  <2>. HIDE DEF st
  <2>4. /\ phase' = "expanded" /\ fwEnd' = LargeEnd /\ bufState' = st /\ reg' = reg
        /\ p = newPos /\ fwPos' = p
    BY <1>2, <2>2, <2>3
  <2>5. Moves(p)
    BY <1>2, <1>3, <2>3, <2>4 DEF Moves
  <2>6. Geometry'
    BY <2>1, <2>3, <2>4 DEF Geometry
  <2>. QED  BY <2>5, <2>6
<1>9. CASE phase = "narrowed"
  <2>1. bufState = {"FW_NARROW", "NARROW", "UPDATE"} /\ reg.status \in {"FW_NARROW", "NONE"}
    BY <1>9 DEF Geometry
  <2>2. st = {"FW_NARROW", "NOTIFY"}
    BY <2>1 DEF BufStatus, CheckState, FirstOfSwitch, SecondOfSwitch
  <2>3. Told(st) = {"REDUCE_FINSH"} /\ TriggerState(st) = {"FW_NARROW"} /\ ~Resets(st)
    BY <2>2 DEF Told, TriggerState, Resets
  <2>4. RingEnd = SmallEnd /\ fwEnd = SmallEnd
    BY <1>9, <2>1 DEF RingEnd, NarrowDone, SecondOfSwitch, BufStatus, Geometry
  <2>. HIDE DEF st
  <2>5. Stays /\ phase' = "small" /\ rxEnd' = SmallEnd /\ bufState' = {"FW_NARROW"}
    BY <1>2, <2>3, <2>4 DEF Stays
  <2>6. Geometry'
    BY <2>1, <2>4, <2>5 DEF Geometry, Stays
  <2>. QED  BY <2>5, <2>6
<1>a. CASE phase = "expanded"
  <2>1. bufState = {"FW_EXPAND", "EXPAND", "UPDATE"} /\ reg.status = "FW_EXPAND"
    BY <1>a DEF Geometry
  <2>2. st = {"FW_EXPAND", "EXPEND_FINSH"}
    BY <2>1 DEF BufStatus, CheckState, FirstOfSwitch, SecondOfSwitch
  <2>3. Told(st) = {"ENLARGE_FINSH"} /\ TriggerState(st) = {"FW_EXPAND"} /\ ~Resets(st)
    BY <2>2 DEF Told, TriggerState, Resets
  <2>4. RingEnd = LargeEnd /\ fwEnd = LargeEnd
    BY <1>a, <2>1 DEF RingEnd, NarrowDone, ExpandDone, SecondOfSwitch, BufStatus, Geometry
  <2>. HIDE DEF st
  <2>5. Stays /\ phase' = "large" /\ rxEnd' = LargeEnd /\ bufState' = {"FW_EXPAND"}
    BY <1>2, <2>3, <2>4 DEF Stays
  <2>6. Geometry'
    BY <2>1, <2>4, <2>5 DEF Geometry, Stays
  <2>. QED  BY <2>5, <2>6
<1>b. \/ bufState \in {{"FW_EXPAND"}, {"FW_NARROW"}, {"FW_NARROW", "NARROW"},
                      {"FW_EXPAND", "EXPAND"}}
      \/ phase \in {"narrowed", "expanded"}
  BY DEF Geometry
<1>. QED  BY <1>6, <1>7, <1>8, <1>9, <1>a, <1>b

\* Where both sides are after the ring was read.
LEMMA ReadPlaces ==
  ASSUME NEW pos, NEW m, Places(pos, m), NEW e, e = fwEnd, e \in Nat, SmallEnd <= e,
         NEW e2, e2 = fwEnd', e2 \in Nat,
         NEW r \in m..sent, newPos = pos[r + 1], irq => r < sent,
         Stays \/ \E p : Moves(p), ~pending', UNCHANGED <<mem, sent, irq>>
  PROVE  \E pos2 : Places(pos2, r)'
<1>1. /\ Chain(mem, e, pos, m, sent) /\ pos[m + 1] = bufPos /\ pos[sent + 1] = fwPos
      /\ reg.pos = fwPos
  BY DEF Places
<1>2. m \in Nat /\ sent \in Nat /\ m <= sent /\ r \in Nat /\ m <= r /\ r <= sent
  BY <1>1 DEF Chain
<1>3. CASE Stays
  <2>1. PICK pos2 : pos2 = [n \in (r + 1)..(sent + 1) |-> pos[n]]
    OBVIOUS
  <2>2. Chain(mem, e, pos2, r, sent)
    BY <1>1, <2>1, ChainRest
  <2>3. pos2[r + 1] = newPos /\ pos2[sent + 1] = fwPos /\ r \in r..sent
    BY <1>1, <1>2, <2>1
  <2>4. Places(pos2, r)'
    BY <1>1, <1>3, <2>2, <2>3 DEF Places, Stays
  <2>. QED  BY <2>4
<1>4. ASSUME NEW p, Moves(p) PROVE \E pos2 : Places(pos2, r)'
  <2>1. r = sent
    <3>1. sent \in m..sent /\ pos[r + 1] = pos[sent + 1]
      BY <1>1, <1>2, <1>4 DEF Moves
    <3>. QED  BY <1>1, <3>1, ChainDistinct
  <2>2. PICK pos2 : pos2 = Only(sent, p)
    OBVIOUS
  <2>3. p \in Pos /\ p.a <= e2
    BY <1>4 DEF Moves
  <2>4. Chain(mem, e2, pos2, sent, sent) /\ pos2[sent + 1] = p
    BY <1>2, <2>2, <2>3, ChainEmpty
  <2>5. sent \in sent..sent /\ ~irq
    BY <1>2, <2>1
  <2>6. Places(pos2, sent)'
    BY <1>4, <2>4, <2>5 DEF Places, Moves
  <2>. QED  BY <2>1, <2>6
<1>. QED  BY <1>3, <1>4

\* The new buffer is the last in the list of used ones.
LEMMA ReadQueue ==
  ASSUME Lists, NEW c, NEW m \in Nat, Queue(c, m), NEW r \in Nat, m <= r,
         freeList # << >>, NEW b, b = Head(freeList), DOMAIN buf = Bufs,
         NEW d, Walk(d, 0, d.start, m, r), buf' = [buf EXCEPT ![b] = d],
         usedList' = Append(usedList, b), UNCHANGED <<cur, handled>>
  PROVE  \E c2 : Queue(c2, r)'
<1>1. /\ freeList \in Seq(Bufs) /\ usedList \in Seq(Bufs) /\ b \in Bufs /\ 1 \in DOMAIN freeList
      /\ b = freeList[1]
  BY DEF Lists
<1>2. PICK l \in Nat : l = Len(usedList)
  BY <1>1
<1>3. /\ c \in [0..l -> Nat] /\ c[l] = m /\ \A j \in 0..l : c[j] <= m
      /\ IF cur = NoBuf THEN c[0] = Len(handled)
         ELSE Walk(buf[cur.b], cur.i, cur.last, Len(handled), c[0])
      /\ \A j \in 1..l : Walk(buf[usedList[j]], 0, buf[usedList[j]].start, c[j - 1], c[j])
  BY <1>2 DEF Queue
<1>4. Len(usedList') = l + 1 /\ usedList'[l + 1] = b /\ \A j \in 1..l : usedList'[j] = usedList[j]
  BY <1>1, <1>2
<1>5. \A j \in 1..l : usedList[j] \in Bufs /\ usedList[j] # b
  BY <1>1, <1>2 DEF Lists
<1>6. cur # NoBuf => cur.b # b
  BY <1>1 DEF Lists
<1>7. buf'[b] = d /\ \A x \in Bufs : x # b => buf'[x] = buf[x]
  BY <1>1
<1>8. PICK c2 : c2 = [j \in 0..(l + 1) |-> IF j = l + 1 THEN r ELSE c[j]]
  OBVIOUS
<1>9. /\ c2 \in [0..(l + 1) -> Nat] /\ c2[l + 1] = r /\ \A j \in 0..(l + 1) : c2[j] <= r
      /\ \A j \in 0..l : c2[j] = c[j]
  <2>1. \A j \in 0..(l + 1) : j = l + 1 \/ j \in 0..l
    OBVIOUS
  <2>2. \A j \in 0..l : c[j] \in Nat /\ c[j] <= m /\ j # l + 1
    BY <1>3
  <2>. QED  BY <1>8, <2>1, <2>2
<1>a. IF cur' = NoBuf THEN c2[0] = Len(handled')
      ELSE Walk(buf'[cur'.b], cur'.i, cur'.last, Len(handled'), c2[0])
  <2>1. c2[0] = c[0]
    BY <1>9
  <2>2. cur # NoBuf => buf'[cur.b] = buf[cur.b]
    BY <1>6, <1>7 DEF Lists
  <2>. QED  BY <1>3, <2>1, <2>2
<1>b. ASSUME NEW j \in 1..(l + 1)
      PROVE  Walk(buf'[usedList'[j]], 0, buf'[usedList'[j]].start, c2[j - 1], c2[j])
  <2>1. CASE j = l + 1
    <3>1. j - 1 = l /\ l \in 0..l
      BY <2>1
    <3>2. c2[j - 1] = m /\ c2[j] = r /\ usedList'[j] = b
      BY <1>3, <1>4, <1>9, <2>1, <3>1
    <3>. QED  BY <1>7, <3>2
  <2>2. CASE j # l + 1
    <3>1. j \in 1..l /\ j \in 0..l /\ j - 1 \in 0..l
      BY <2>2
    <3>2. c2[j - 1] = c[j - 1] /\ c2[j] = c[j] /\ usedList'[j] = usedList[j]
      BY <1>4, <1>9, <3>1
    <3>3. buf'[usedList[j]] = buf[usedList[j]]
      BY <1>5, <1>7, <3>1
    <3>. QED  BY <1>3, <3>1, <3>2, <3>3
  <2>. QED  BY <2>1, <2>2
<1>. QED  BY <1>4, <1>9, <1>a, <1>b DEF Queue

\* The buffer goes from one list to the other.
LEMMA ReadLists ==
  ASSUME Lists, freeList # << >>, freeList' = Tail(freeList),
         usedList' = Append(usedList, Head(freeList)), UNCHANGED cur
  PROVE  Lists'
<1>1. /\ freeList \in Seq(Bufs) /\ usedList \in Seq(Bufs)
      /\ \A i, j \in DOMAIN freeList : freeList[i] = freeList[j] => i = j
      /\ \A i, j \in DOMAIN usedList : usedList[i] = usedList[j] => i = j
      /\ \A i \in DOMAIN freeList, j \in DOMAIN usedList : freeList[i] # usedList[j]
      /\ cur # NoBuf => /\ cur.b \in Bufs
                        /\ \A i \in DOMAIN freeList : freeList[i] # cur.b
                        /\ \A i \in DOMAIN usedList : usedList[i] # cur.b
  BY DEF Lists
<1>2. PICK k \in Nat : k = Len(freeList)
  BY <1>1
<1>3. PICK l \in Nat : l = Len(usedList)
  BY <1>1
<1>4. /\ DOMAIN freeList = 1..k /\ DOMAIN usedList = 1..l /\ k > 0 /\ Head(freeList) = freeList[1]
      /\ 1 \in 1..k
  BY <1>1, <1>2, <1>3
<1>5. /\ freeList' \in Seq(Bufs) /\ usedList' \in Seq(Bufs)
      /\ DOMAIN freeList' = 1..(k - 1) /\ DOMAIN usedList' = 1..(l + 1)
      /\ \A i \in 1..(k - 1) : freeList'[i] = freeList[i + 1] /\ i + 1 \in 1..k /\ i + 1 # 1
      /\ \A i \in 1..l : usedList'[i] = usedList[i]
      /\ usedList'[l + 1] = freeList[1]
  BY <1>1, <1>2, <1>3, <1>4
<1>6. \A i \in 1..(l + 1) : i \in 1..l \/ i = l + 1
  OBVIOUS
<1>7. \A i, j \in 1..(k - 1) : freeList'[i] = freeList'[j] => i = j
  <2>1. TAKE i, j \in 1..(k - 1)
  <2>2. HAVE freeList'[i] = freeList'[j]
  <2>3. /\ freeList[i + 1] = freeList[j + 1]
        /\ i + 1 \in DOMAIN freeList /\ j + 1 \in DOMAIN freeList
    BY <1>4, <1>5, <2>2
  <2>4. i + 1 = j + 1
    BY <1>1, <2>3
  <2>. QED  BY <2>4
<1>8. \A i, j \in 1..(l + 1) : usedList'[i] = usedList'[j] => i = j
  <2>1. TAKE i, j \in 1..(l + 1)
  <2>2. CASE i \in 1..l /\ j \in 1..l
    BY ZenonT(40), <1>1, <1>4, <1>5, <2>2
  <2>3. CASE i \in 1..l /\ j = l + 1
    BY <1>1, <1>4, <1>5, <2>3
  <2>4. CASE i = l + 1 /\ j \in 1..l
    BY <1>1, <1>4, <1>5, <2>4
  <2>. QED  BY <1>6, <2>2, <2>3, <2>4
<1>9. \A i \in 1..(k - 1), j \in 1..(l + 1) : freeList'[i] # usedList'[j]
  <2>1. TAKE i \in 1..(k - 1), j \in 1..(l + 1)
  <2>2. freeList'[i] = freeList[i + 1] /\ i + 1 \in 1..k /\ i + 1 # 1
    BY <1>5
  <2>3. CASE j \in 1..l
    <3>1. usedList'[j] = usedList[j] /\ j \in DOMAIN usedList /\ i + 1 \in DOMAIN freeList
      BY <1>4, <1>5, <2>2, <2>3
    <3>. QED  BY <1>1, <2>2, <3>1
  <2>4. CASE j = l + 1
    <3>1. usedList'[j] = freeList[1] /\ 1 \in DOMAIN freeList /\ i + 1 \in DOMAIN freeList
      BY <1>4, <1>5, <2>2, <2>4
    <3>. QED  BY <1>1, <2>2, <3>1
  <2>. QED  BY <1>6, <2>3, <2>4
<1>a. cur # NoBuf => /\ cur.b \in Bufs
                     /\ \A i \in 1..(k - 1) : freeList'[i] # cur.b
                     /\ \A i \in 1..(l + 1) : usedList'[i] # cur.b
  <2>1. HAVE cur # NoBuf
  <2>2. \A i \in 1..(k - 1) : freeList'[i] # cur.b
    BY <1>1, <1>4, <1>5, <2>1
  <2>3. ASSUME NEW i \in 1..(l + 1) PROVE usedList'[i] # cur.b
    <3>1. CASE i \in 1..l
      BY <1>1, <1>4, <1>5, <2>1, <3>1
    <3>2. CASE i = l + 1
      BY <1>1, <1>4, <1>5, <2>1, <3>2
    <3>. QED  BY <1>6, <3>1, <3>2
  <2>. QED  BY <1>1, <2>1, <2>2, <2>3
<1>. QED  BY <1>5, <1>7, <1>8, <1>9, <1>a DEF Lists

\* It reads the ring into a buffer.
LEMMA ReadStep ==
  ASSUME IrqRx, NewData, RxInv
  PROVE  RxInv' /\ UNCHANGED <<sent, handled>>
<1>1. Shapes /\ Lists /\ Geometry
  BY DEF RxInv
<1>2. PICK m, pos, c : Places(pos, m) /\ Queue(c, m)
  BY DEF RxInv
<1>3. /\ pending /\ ~pending' /\ Read /\ freeList # << >>
      /\ UNCHANGED <<mem, sent, irq, cur, handled>>
  BY DEF IrqRx
<1>4. PICK b : b = Head(freeList)
  OBVIOUS
<1>5. b \in Bufs
  BY <1>1, <1>3, <1>4 DEF Lists
<1>6. /\ buf' = [buf EXCEPT ![b] = Filled(EndOf(b))] /\ freeList' = Tail(freeList)
      /\ usedList' = Append(usedList, b)
  BY <1>3, <1>4 DEF Read
<1>7. fwEnd \in Nat /\ SmallEnd <= fwEnd
  BY <1>1, Lengths
<1>8. /\ Chain(mem, fwEnd, pos, m, sent) /\ pos[m + 1] = bufPos /\ pos[sent + 1] = fwPos
      /\ reg.pos = fwPos
  BY <1>2 DEF Places
<1>9. PICK r \in m..sent : newPos = pos[r + 1] /\ (irq => r < sent)
  BY <1>2 DEF Places
<1>a. m \in Nat /\ sent \in Nat /\ m <= sent /\ r \in Nat /\ m <= r /\ r <= sent
  BY <1>8 DEF Chain
<1>b. r \in (m + 1)..sent
  <2>1. r # m
    BY <1>8, <1>9 DEF NewData
  <2>. QED  BY <1>a, <2>1
<1>c. newPos \in Pos /\ newPos.a <= fwEnd
  <2>1. r + 1 \in (m + 1)..(sent + 1)
    BY <1>a
  <2>2. Lap(fwEnd, pos[m + 1], pos[r + 1])
    BY <1>8, <2>1 DEF Chain
  <2>. QED  BY <1>9, <2>2 DEF Lap
<1>d. newPos = fwPos => ~irq
  <2>1. sent \in m..sent
    BY <1>a
  <2>2. pos[r + 1] = pos[sent + 1] => r = sent
    BY <1>7, <1>8, <2>1, ChainDistinct
  <2>. QED  BY <1>8, <1>9, <1>a, <2>2
<1>e. Geometry' /\ (Stays \/ \E p : Moves(p))
  BY <1>1, <1>3, <1>8, <1>c, <1>d, ReadGeometry DEF Lists, Shapes
<1>f. fwEnd' \in Nat
  BY <1>e, RxBufAssumption DEF Geometry
<1>g. \E pos2 : Places(pos2, r)'
  BY <1>2, <1>3, <1>7, <1>9, <1>e, <1>f, ReadPlaces
<1>h. PICK d : d = Filled(EndOf(b))
  OBVIOUS
<1>i. d = Loaded(mem, fwEnd, pos[m + 1].a, pos[r + 1].a)
  <2>1. EndOf(b) = fwEnd
    BY <1>1, <1>5, ReadEnd
  <2>2. \A x, y : Cells(x, y) = Copy(mem, x, y)
    BY DEF Cells, Copy
  <2>. QED  BY <1>8, <1>9, <1>h, <2>1, <2>2 DEF Filled, Loaded
<1>j. Walk(d, 0, d.start, m, r)
  BY <1>7, <1>8, <1>b, <1>i, ReadWalk
<1>k. \E c2 : Queue(c2, r)'
  <2>1. buf' = [buf EXCEPT ![b] = d]
    BY <1>6, <1>h
  <2>2. DOMAIN buf = Bufs
    BY <1>1 DEF Shapes
  <2>. QED  BY <1>1, <1>2, <1>3, <1>4, <1>6, <1>a, <1>j, <2>1, <2>2, ReadQueue
<1>l. Lists'
  BY <1>1, <1>3, <1>4, <1>6, ReadLists
<1>m. Shapes'
  <2>1. bufPos' \in Pos
    BY <1>c, <1>e DEF Stays, Moves
  <2>2. d = [data |-> d.data, first |-> d.first, start |-> d.start, end |-> d.end]
    BY <1>h DEF Filled
  <2>. QED  BY <1>1, <1>3, <1>5, <1>6, <1>h, <2>1, <2>2 DEF Shapes
<1>. QED  BY <1>3, <1>e, <1>g, <1>k, <1>l, <1>m DEF RxInv

\* It finds nothing new.
LEMMA NothingStep ==
  ASSUME IrqRx, ~NewData, RxInv
  PROVE  RxInv' /\ UNCHANGED <<sent, handled>>
<1>1. Shapes /\ Lists /\ Geometry
  BY DEF RxInv
<1>2. PICK m, pos, c : Places(pos, m) /\ Queue(c, m)
  BY DEF RxInv
<1>3. /\ ~pending' /\ newPos = bufPos
      /\ UNCHANGED <<mem, sent, irq, cur, handled, buf, freeList, usedList, rxEnd, bufState,
                     newPos, bufPos, reg, phase, fwEnd, fwPos>>
  BY DEF IrqRx, NewData, bufVars
<1>4. Shapes' /\ Lists' /\ Queue(c, m)'
  BY <1>1, <1>2, <1>3, ShapesKept, ListsKept, QueueKept
<1>5. Places(pos, m)'
  BY <1>2, <1>3 DEF Places
<1>6. Geometry'
  BY <1>1, <1>3 DEF Geometry, AllEnd
<1>. QED  BY <1>3, <1>4, <1>5, <1>6 DEF RxInv

-----------------------------------------------------------------------------
(* The steps of aml_rx_task                                                 *)

\* It takes the next buffer.
LEMMA TakeStep ==
  ASSUME RxTake, RxInv
  PROVE  RxInv' /\ UNCHANGED <<sent, handled>>
<1>1. Shapes /\ Lists /\ Geometry
  BY DEF RxInv
<1>2. PICK m, pos, c : Places(pos, m) /\ Queue(c, m)
  BY DEF RxInv
<1>3. PICK h : h = Head(usedList)
  OBVIOUS
<1>4. /\ cur = NoBuf /\ usedList # << >> /\ cur' = [b |-> h, i |-> 0, last |-> buf[h].start]
      /\ usedList' = Tail(usedList)
      /\ UNCHANGED <<mem, fwEnd, sent, fwPos, bufPos, reg, irq, newPos, pending, handled, buf,
                     freeList, phase, rxEnd, bufState>>
  BY <1>3 DEF RxTake, fwVars, irqVars
<1>5. /\ freeList \in Seq(Bufs) /\ usedList \in Seq(Bufs)
      /\ \A i, j \in DOMAIN freeList : freeList[i] = freeList[j] => i = j
      /\ \A i, j \in DOMAIN usedList : usedList[i] = usedList[j] => i = j
      /\ \A i \in DOMAIN freeList, j \in DOMAIN usedList : freeList[i] # usedList[j]
  BY <1>1 DEF Lists
<1>6. PICK l \in Nat : l = Len(usedList)
  BY <1>5
<1>7. /\ l > 0 /\ DOMAIN usedList = 1..l /\ h = usedList[1] /\ h \in Bufs /\ 1 \in 1..l
      /\ usedList' \in Seq(Bufs) /\ Len(usedList') = l - 1 /\ DOMAIN usedList' = 1..(l - 1)
      /\ \A j \in 1..(l - 1) : usedList'[j] = usedList[j + 1] /\ j + 1 \in 1..l /\ j + 1 # 1
  BY <1>3, <1>4, <1>5, <1>6
<1>8. cur' # NoBuf /\ cur'.b = h /\ cur'.i = 0 /\ cur'.last = buf[h].start
  <2>1. NoBuf.b = 0 /\ h # 0
    BY <1>7 DEF NoBuf, Bufs
  <2>. QED  BY <1>4, <2>1
<1>9. Lists'
  <2>1. \A i, j \in 1..(l - 1) : usedList'[i] = usedList'[j] => i = j
    <3>1. TAKE i, j \in 1..(l - 1)
    <3>2. HAVE usedList'[i] = usedList'[j]
    <3>3. /\ usedList[i + 1] = usedList[j + 1]
          /\ i + 1 \in DOMAIN usedList /\ j + 1 \in DOMAIN usedList
      BY <1>7, <3>2
    <3>4. i + 1 = j + 1
      BY <1>5, <3>3
    <3>. QED  BY <3>4
  <2>2. \A i \in DOMAIN freeList, j \in 1..(l - 1) : freeList[i] # usedList'[j]
    <3>1. TAKE i \in DOMAIN freeList, j \in 1..(l - 1)
    <3>2. j + 1 \in DOMAIN usedList /\ usedList'[j] = usedList[j + 1]
      BY <1>7
    <3>. QED  BY <1>5, <3>2
  <2>3. \A i \in DOMAIN freeList : freeList[i] # h
    BY <1>5, <1>7
  <2>4. \A j \in 1..(l - 1) : usedList'[j] # h
    BY <1>5, <1>7
  <2>. QED  BY <1>4, <1>5, <1>7, <1>8, <2>1, <2>2, <2>3, <2>4 DEF Lists
<1>a. /\ c \in [0..l -> Nat] /\ c[l] = m /\ \A j \in 0..l : c[j] <= m
      /\ c[0] = Len(handled)
      /\ \A j \in 1..l : Walk(buf[usedList[j]], 0, buf[usedList[j]].start, c[j - 1], c[j])
  BY <1>2, <1>4, <1>6 DEF Queue
<1>b. PICK c2 : c2 = [j \in 0..(l - 1) |-> c[j + 1]]
  OBVIOUS
<1>c. /\ c2 \in [0..(l - 1) -> Nat] /\ c2[l - 1] = m /\ \A j \in 0..(l - 1) : c2[j] <= m
      /\ c2[0] = c[1]
  <2>1. \A j \in 0..(l - 1) : j + 1 \in 0..l
    BY <1>6
  <2>2. l - 1 \in 0..(l - 1) /\ (l - 1) + 1 = l /\ 0 \in 0..(l - 1) /\ 0 + 1 = 1
    BY <1>6, <1>7
  <2>. QED  BY <1>a, <1>b, <2>1, <2>2
<1>d. Walk(buf[h], 0, buf[h].start, Len(handled), c2[0])
  <2>1. 1 - 1 = 0
    OBVIOUS
  <2>2. Walk(buf[usedList[1]], 0, buf[usedList[1]].start, c[1 - 1], c[1])
    BY <1>7, <1>a
  <2>. QED  BY <1>7, <1>a, <1>c, <2>1, <2>2
<1>e. ASSUME NEW j \in 1..(l - 1)
      PROVE  Walk(buf[usedList'[j]], 0, buf[usedList'[j]].start, c2[j - 1], c2[j])
  <2>1. /\ j + 1 \in 1..l /\ j \in 0..(l - 1) /\ j - 1 \in 0..(l - 1)
        /\ (j - 1) + 1 = (j + 1) - 1
    BY <1>6, <1>7
  <2>2. c2[j - 1] = c[(j + 1) - 1] /\ c2[j] = c[j + 1]
    BY <1>b, <2>1
  <2>3. Walk(buf[usedList[j + 1]], 0, buf[usedList[j + 1]].start, c[(j + 1) - 1], c[j + 1])
    BY <1>a, <2>1
  <2>. QED  BY <1>7, <2>2, <2>3
<1>f. Queue(c2, m)'
  BY <1>4, <1>7, <1>8, <1>c, <1>d, <1>e DEF Queue
<1>g. Shapes' /\ Geometry' /\ Places(pos, m)'
  <2>1. Shapes'
    BY <1>1, <1>4 DEF Shapes
  <2>. QED  BY <1>1, <1>2, <1>4, <2>1, GeometryKept, PlacesKept
<1>. QED  BY <1>4, <1>9, <1>f, <1>g DEF RxInv

\* It waits or is woken.
LEMMA WaitStep ==
  ASSUME RxWake \/ RxSleep, RxInv
  PROVE  RxInv' /\ UNCHANGED <<sent, handled>>
<1>1. UNCHANGED <<mem, fwEnd, sent, fwPos, bufPos, reg, irq, newPos, pending, usedList, cur,
                  handled, buf, freeList, phase, rxEnd, bufState>>
  BY DEF RxWake, RxSleep, fwVars, irqVars, bufVars
<1>2. Shapes /\ Lists /\ Geometry
  BY DEF RxInv
<1>3. Shapes' /\ Lists' /\ Geometry'
  BY <1>1, <1>2, ShapesKept, ListsKept, GeometryKept
<1>4. PICK m, pos, c : Places(pos, m) /\ Queue(c, m)
  BY DEF RxInv
<1>5. Places(pos, m)' /\ Queue(c, m)'
  BY <1>1, <1>4, PlacesKept, QueueKept
<1>. QED  BY <1>1, <1>3, <1>5 DEF RxInv

\* Packet p is the next one of a walk, and np the address to go on from.
Comes(r, i, last, A, B, p, np) ==
    /\ A \in Nat /\ B \in Nat /\ A + 1 <= B
    /\ IsPacket(r.data, i) /\ p.n = A + 1 /\ p.next \in 0..r.end /\ r.end \in Nat
    /\ Walk(r, IF np > last THEN i + np - last ELSE r.first + np, np, A + 1, B)

\* A walk that has not reached the end of the data is at its next packet.
LEMMA WalkStep ==
  ASSUME NEW r, NEW i, NEW last, NEW A, NEW B, Walk(r, i, last, A, B), i < Len(r.data),
         NEW p, p = r.data[i + 1].pkt, NEW np, np = NextPos(p.next, r.end)
  PROVE  Comes(r, i, last, A, B, p, np)
<1>1. PICK ix, la : Follows(r.data, r.first, r.end, ix, la, A, B)
                    /\ ix[A + 1] = i /\ la[A + 1] = last
  BY DEF Walk
<1>2. /\ A \in Nat /\ B \in Nat /\ A <= B /\ r.end \in Nat /\ Len(r.data) \in Nat
      /\ ix \in [(A + 1)..(B + 1) -> Nat] /\ la \in [(A + 1)..(B + 1) -> Nat]
      /\ ix[B + 1] >= Len(r.data)
  BY <1>1 DEF Follows
<1>3. i \in Nat /\ A # B
  <2>1. A + 1 \in (A + 1)..(B + 1) /\ B + 1 \in (A + 1)..(B + 1)
    BY <1>2
  <2>2. i \in Nat
    BY <1>1, <1>2, <2>1
  <2>3. A = B => i >= Len(r.data)
    BY <1>1, <1>2
  <2>. QED  BY <2>2, <2>3
<1>4. A + 1 \in (A + 1)..B /\ A + 1 \in Nat /\ A + 1 <= B
  BY <1>2, <1>3
<1>5. /\ IsPacket(r.data, i) /\ p.n = A + 1 /\ p.next \in 0..r.end /\ r.end \in Nat
      /\ la[(A + 1) + 1] = np
      /\ ix[(A + 1) + 1] = IF np > last THEN i + np - last ELSE r.first + np
  <2>1. LET n == A + 1  q == r.data[ix[n] + 1].pkt IN
        /\ IsPacket(r.data, ix[n]) /\ q.n = n /\ q.next \in 0..r.end
        /\ la[n + 1] = NextPos(q.next, r.end)
        /\ ix[n + 1] = IF la[n + 1] > la[n] THEN ix[n] + la[n + 1] - la[n]
                       ELSE r.first + la[n + 1]
    BY <1>1, <1>4 DEF Follows
  <2>. QED  BY <1>1, <1>2, <2>1
<1>6. PICK x, y : /\ x = [n \in ((A + 1) + 1)..(B + 1) |-> ix[n]]
                  /\ y = [n \in ((A + 1) + 1)..(B + 1) |-> la[n]]
  OBVIOUS
<1>7. /\ x \in [((A + 1) + 1)..(B + 1) -> Nat] /\ y \in [((A + 1) + 1)..(B + 1) -> Nat]
      /\ \A n \in ((A + 1) + 1)..(B + 1) : x[n] = ix[n] /\ y[n] = la[n]
      /\ x[B + 1] >= Len(r.data)
      /\ x[(A + 1) + 1] = ix[(A + 1) + 1] /\ y[(A + 1) + 1] = la[(A + 1) + 1]
  <2>1. \A n \in ((A + 1) + 1)..(B + 1) : n \in (A + 1)..(B + 1)
    BY <1>2
  <2>2. B + 1 \in ((A + 1) + 1)..(B + 1) /\ (A + 1) + 1 \in ((A + 1) + 1)..(B + 1)
    BY <1>2, <1>4
  <2>. QED  BY <1>2, <1>6, <2>1, <2>2
<1>8. ASSUME NEW n \in ((A + 1) + 1)..B
      PROVE  LET q == r.data[x[n] + 1].pkt IN
             /\ x[n] < Len(r.data) /\ IsPacket(r.data, x[n])
             /\ q.n = n /\ q.next \in 0..r.end
             /\ y[n + 1] = NextPos(q.next, r.end)
             /\ x[n + 1] = IF y[n + 1] > y[n] THEN x[n] + y[n + 1] - y[n] ELSE r.first + y[n + 1]
  <2>1. n \in (A + 1)..B /\ n \in ((A + 1) + 1)..(B + 1) /\ n + 1 \in ((A + 1) + 1)..(B + 1)
    BY <1>2
  <2>2. x[n] = ix[n] /\ y[n] = la[n] /\ x[n + 1] = ix[n + 1] /\ y[n + 1] = la[n + 1]
    BY <1>7, <2>1
  <2>3. LET q == r.data[ix[n] + 1].pkt IN
             /\ ix[n] < Len(r.data) /\ IsPacket(r.data, ix[n])
             /\ q.n = n /\ q.next \in 0..r.end
             /\ la[n + 1] = NextPos(q.next, r.end)
             /\ ix[n + 1] = IF la[n + 1] > la[n] THEN ix[n] + la[n + 1] - la[n]
                            ELSE r.first + la[n + 1]
    BY <1>1, <2>1 DEF Follows
  <2>. QED  BY <2>2, <2>3
<1>9. Follows(r.data, r.first, r.end, x, y, A + 1, B)
  BY <1>2, <1>4, <1>7, <1>8 DEF Follows
<1>a. Walk(r, IF np > last THEN i + np - last ELSE r.first + np, np, A + 1, B)
  BY <1>5, <1>7, <1>9 DEF Walk
<1>. QED  BY <1>2, <1>4, <1>5, <1>a DEF Comes

\* A walk that has reached the end of the data has no more packets.
LEMMA WalkEnd ==
  ASSUME NEW r, NEW i, NEW last, NEW A, NEW B, Walk(r, i, last, A, B), i >= Len(r.data)
  PROVE  A = B
<1>1. PICK ix, la : Follows(r.data, r.first, r.end, ix, la, A, B) /\ ix[A + 1] = i
  BY DEF Walk
<1>2. /\ A \in Nat /\ B \in Nat /\ A <= B /\ Len(r.data) \in Nat
      /\ ix \in [(A + 1)..(B + 1) -> Nat]
  BY <1>1 DEF Follows
<1>3. A # B => ix[A + 1] < Len(r.data)
  <2>1. A # B => A + 1 \in (A + 1)..B
    BY <1>2
  <2>. QED  BY <1>1, <2>1 DEF Follows
<1>. QED  BY <1>1, <1>2, <1>3

\* It handles the packet that comes next, as the firmware wrote it.
LEMMA PacketStep ==
  ASSUME RxPacket, RxInv
  PROVE  RxInv' /\ Channel!Handle
<1>1. Shapes /\ Lists /\ Geometry
  BY DEF RxInv
<1>2. PICK m, pos, c : Places(pos, m) /\ Queue(c, m)
  BY DEF RxInv
<1>3. cur # NoBuf /\ cur.i < Len(buf[cur.b].data)
  BY DEF RxPacket
<1>4. Walk(buf[cur.b], cur.i, cur.last, Len(handled), c[0])
  BY <1>2, <1>3 DEF Queue
<1>5. PICK p, np : p = buf[cur.b].data[cur.i + 1].pkt /\ np = NextPos(p.next, buf[cur.b].end)
  OBVIOUS
<1>6. PICK k : k = Len(handled)
  OBVIOUS
<1>7. /\ k \in Nat /\ c[0] \in Nat /\ k + 1 <= c[0]
      /\ IsPacket(buf[cur.b].data, cur.i) /\ p.n = k + 1
      /\ p.next \in 0..buf[cur.b].end /\ buf[cur.b].end \in Nat
      /\ Walk(buf[cur.b], IF np > cur.last THEN cur.i + np - cur.last ELSE buf[cur.b].first + np,
              np, k + 1, c[0])
  <2>1. Walk(buf[cur.b], cur.i, cur.last, k, c[0])
    BY <1>4, <1>6
  <2>2. Comes(buf[cur.b], cur.i, cur.last, k, c[0], p, np)
    BY <1>3, <1>5, <2>1, WalkStep
  <2>. QED  BY <2>2 DEF Comes
<1>8. /\ handled' = Append(handled, k + 1)
      /\ cur' = [cur EXCEPT !.i = NextIdx(p.next, buf[cur.b].end), !.last = np]
      /\ UNCHANGED <<mem, fwEnd, sent, fwPos, bufPos, reg, irq, newPos, pending, usedList,
                     buf, freeList, phase, rxEnd, bufState>>
  <2>1. ~(p.next > buf[cur.b].end)
    <3>1. SUFFICES ASSUME p.next > buf[cur.b].end PROVE FALSE
      OBVIOUS
    <3>. QED  BY <1>7, <3>1
  <2>. QED  BY <1>5, <1>6, <1>7, <2>1 DEF RxPacket, fwVars, bufVars
<1>9. /\ cur'.b = cur.b /\ cur'.last = np
      /\ cur'.i = IF np > cur.last THEN cur.i + np - cur.last ELSE buf[cur.b].first + np
      /\ cur' = [b |-> cur'.b, i |-> cur'.i, last |-> cur'.last]
  <2>1. cur = [b |-> cur.b, i |-> cur.i, last |-> cur.last]
    BY <1>1 DEF Shapes
  <2>. QED  BY <1>5, <1>8, <2>1 DEF NextIdx
<1>a. cur.b \in Bufs /\ cur' # NoBuf
  <2>1. cur.b \in Bufs
    BY <1>1, <1>3 DEF Lists
  <2>2. NoBuf.b = 0 /\ cur.b # 0
    BY <2>1 DEF NoBuf, Bufs
  <2>. QED  BY <1>9, <2>1, <2>2
<1>b. /\ handled' \in Seq(Nat) /\ Len(handled') = k + 1
      /\ \A i \in 1..(k + 1) : handled'[i] = i
  <2>1. handled \in Seq(Nat) /\ \A i \in 1..k : handled[i] = i
    BY <1>1, <1>6 DEF Shapes
  <2>2. k + 1 \in Nat
    BY <1>7
  <2>. QED  BY <1>6, <1>7, <1>8, <2>1, <2>2
<1>c. Queue(c, m)'
  <2>1. Walk(buf'[cur'.b], cur'.i, cur'.last, Len(handled'), c[0])
    BY <1>7, <1>8, <1>9, <1>b
  <2>. QED  BY <1>2, <1>8, <1>a, <2>1 DEF Queue
<1>d. Lists'
  BY <1>1, <1>3, <1>8, <1>9, <1>a DEF Lists
<1>e. Shapes'
  BY <1>1, <1>8, <1>9, <1>b DEF Shapes
<1>f. Geometry' /\ Places(pos, m)'
  BY <1>1, <1>2, <1>8, GeometryKept, PlacesKept
<1>g. k < sent
  <2>1. c[0] <= m /\ c[0] \in Nat
    <3>1. 0 \in 0..Len(usedList)
      BY <1>1 DEF Lists
    <3>. QED  BY <1>2, <1>7, <3>1 DEF Queue
  <2>2. m \in Nat /\ sent \in Nat /\ m <= sent
    BY <1>2 DEF Places, Chain
  <2>. QED  BY <1>7, <2>1, <2>2
<1>h. RxInv'
  BY <1>c, <1>d, <1>e, <1>f DEF RxInv
<1>. QED  BY <1>6, <1>8, <1>g, <1>h DEF Channel!Handle

\* It gives back a buffer, of which nothing is left.
LEMMA DoneStep ==
  ASSUME RxDone, RxInv
  PROVE  RxInv' /\ UNCHANGED <<sent, handled>>
<1>1. Shapes /\ Lists /\ Geometry
  BY DEF RxInv
<1>2. PICK m, pos, c : Places(pos, m) /\ Queue(c, m)
  BY DEF RxInv
<1>3. PICK b : b = cur.b
  OBVIOUS
<1>4. /\ cur # NoBuf /\ cur.i >= Len(buf[b].data) /\ cur' = NoBuf
      /\ buf' = [buf EXCEPT ![b].data = << >>, ![b].first = 0, ![b].start = 0]
      /\ freeList' = Append(freeList, b)
      /\ UNCHANGED <<mem, fwEnd, sent, fwPos, bufPos, reg, irq, newPos, pending, usedList,
                     handled, phase, rxEnd, bufState>>
  BY <1>3 DEF RxDone, fwVars, irqVars
<1>5. /\ freeList \in Seq(Bufs) /\ usedList \in Seq(Bufs)
      /\ \A i, j \in DOMAIN freeList : freeList[i] = freeList[j] => i = j
      /\ \A i, j \in DOMAIN usedList : usedList[i] = usedList[j] => i = j
      /\ \A i \in DOMAIN freeList, j \in DOMAIN usedList : freeList[i] # usedList[j]
      /\ b \in Bufs /\ \A i \in DOMAIN freeList : freeList[i] # b
      /\ \A i \in DOMAIN usedList : usedList[i] # b
  BY <1>1, <1>3, <1>4 DEF Lists
<1>6. PICK k \in Nat : k = Len(freeList)
  BY <1>5
<1>7. /\ freeList' \in Seq(Bufs) /\ DOMAIN freeList' = 1..(k + 1) /\ DOMAIN freeList = 1..k
      /\ \A i \in 1..k : freeList'[i] = freeList[i]
      /\ freeList'[k + 1] = b
      /\ \A i \in 1..(k + 1) : i \in 1..k \/ i = k + 1
  BY <1>4, <1>5, <1>6
<1>8. Lists'
  <2>1. \A i, j \in 1..(k + 1) : freeList'[i] = freeList'[j] => i = j
    <3>1. TAKE i, j \in 1..(k + 1)
    <3>2. CASE i \in 1..k /\ j \in 1..k
      BY <1>5, <1>7, <3>2
    <3>3. CASE i \in 1..k /\ j = k + 1
      BY <1>5, <1>7, <3>3
    <3>4. CASE i = k + 1 /\ j \in 1..k
      BY <1>5, <1>7, <3>4
    <3>. QED  BY <1>7, <3>2, <3>3, <3>4
  <2>2. ASSUME NEW i \in 1..(k + 1), NEW j \in DOMAIN usedList PROVE freeList'[i] # usedList[j]
    <3>1. CASE i \in 1..k
      BY <1>5, <1>7, <3>1
    <3>2. CASE i = k + 1
      BY <1>5, <1>7, <3>2
    <3>. QED  BY <1>7, <3>1, <3>2
  <2>. QED  BY <1>4, <1>5, <1>7, <2>1, <2>2 DEF Lists
<1>9. /\ DOMAIN buf' = Bufs /\ \A x \in Bufs : x # b => buf'[x] = buf[x]
      /\ buf'[b] = [data |-> << >>, first |-> 0, start |-> 0, end |-> buf[b].end]
  <2>1. /\ DOMAIN buf = Bufs
        /\ buf[b] = [data |-> buf[b].data, first |-> buf[b].first,
                     start |-> buf[b].start, end |-> buf[b].end]
    BY <1>1, <1>5 DEF Shapes
  <2>. QED  BY <1>4, <1>5, <2>1
<1>a. Shapes'
  <2>1. cur' = [b |-> cur'.b, i |-> cur'.i, last |-> cur'.last]
    BY <1>4 DEF NoBuf
  <2>2. ASSUME NEW x \in Bufs
        PROVE  buf'[x] = [data |-> buf'[x].data, first |-> buf'[x].first,
                          start |-> buf'[x].start, end |-> buf'[x].end]
    BY <1>1, <1>9 DEF Shapes
  <2>. QED  BY <1>1, <1>4, <1>9, <2>1, <2>2 DEF Shapes
<1>b. c[0] = Len(handled)
  <2>1. Walk(buf[b], cur.i, cur.last, Len(handled), c[0])
    BY <1>2, <1>3, <1>4 DEF Queue
  <2>. QED  BY <1>4, <2>1, WalkEnd
<1>c. Queue(c, m)'
  <2>1. \A j \in 1..Len(usedList) : usedList[j] \in Bufs /\ buf'[usedList[j]] = buf[usedList[j]]
    BY <1>5, <1>9
  <2>. QED  BY <1>2, <1>4, <1>b, <2>1 DEF Queue
<1>d. Geometry'
  <2>1. ASSUME NEW x \in Bufs PROVE buf'[x].end = buf[x].end
    BY <1>9
  <2>2. AllEnd(fwEnd) => AllEnd(fwEnd)'
    BY <1>4, <2>1 DEF AllEnd
  <2>. QED  BY <1>1, <1>4, <2>2 DEF Geometry
<1>e. Places(pos, m)'
  BY <1>2, <1>4, PlacesKept
<1>. QED  BY <1>4, <1>8, <1>a, <1>c, <1>d, <1>e DEF RxInv

-----------------------------------------------------------------------------
(* The theorems                                                             *)

\* Each step keeps the invariant, and is one of the channel or none.
LEMMA RxStep ==
  ASSUME RxInv, [Next]_vars
  PROVE  RxInv' /\ [Channel!Next]_<<sent, handled>>
<1>1. ASSUME NEW t \in Tid, NEW d \in 0..(Window - 1), NEW size \in Sizes,
             FwPublish(t, win[t] + d, size)
      PROVE  RxInv' /\ [Channel!Next]_<<sent, handled>>
  <2>1. PICK sn : sn = win[t] + d
    OBVIOUS
  <2>2. FwPublish(t, sn, size)
    BY <1>1, <2>1
  <2>3. RxInv' /\ Channel!Publish
    BY <2>2, PublishStep
  <2>. QED  BY <2>3 DEF Channel!Next
<1>2. ASSUME NEW t \in Tid, FwFlush(t) PROVE RxInv' /\ UNCHANGED <<sent, handled>>
  BY <1>2, MessageStep
<1>3. CASE IrqTask
  <2>1. CASE IrqAck
    BY <2>1, AckStep
  <2>2. CASE IrqRx
    BY <2>2, ReadStep, NothingStep
  <2>3. CASE IrqMsg
    BY <2>3, MessageStep
  <2>. QED  BY <1>3, <2>1, <2>2, <2>3 DEF IrqTask
<1>4. CASE RxTask
  <2>1. CASE RxWake \/ RxSleep
    BY <2>1, WaitStep
  <2>2. CASE RxTake
    BY <2>2, TakeStep
  <2>3. CASE RxPacket
    BY <2>3, PacketStep DEF Channel!Next
  <2>4. CASE RxDone
    BY <2>4, DoneStep
  <2>. QED  BY <1>4, <2>1, <2>2, <2>3, <2>4 DEF RxTask
<1>5. CASE UNCHANGED vars
  <2>1. UNCHANGED <<mem, fwEnd, sent, fwPos, bufPos, reg, irq, newPos, pending, usedList, cur,
                    handled, buf, freeList, phase, rxEnd, bufState>>
    BY <1>5 DEF vars, fwVars, irqVars, bufVars, rxVars
  <2>2. Shapes /\ Lists /\ Geometry
    BY DEF RxInv
  <2>3. Shapes' /\ Lists' /\ Geometry'
    BY <2>1, <2>2, ShapesKept, ListsKept, GeometryKept
  <2>4. PICK m, pos, c : Places(pos, m) /\ Queue(c, m)
    BY DEF RxInv
  <2>5. Places(pos, m)' /\ Queue(c, m)'
    BY <2>1, <2>4, PlacesKept, QueueKept
  <2>. QED  BY <2>1, <2>3, <2>5 DEF RxInv
<1>. QED  BY <1>1, <1>2, <1>3, <1>4, <1>5 DEF Next

\* The invariant of the ring and its buffers: what the host has not read yet is in the ring
\* packet by packet, what it has read and not handled is in the buffers in the order of
\* their list, and both sides agree on the end of the ring (aml_sdio_rxdataind,
\* aml_sdio_dynamic_buffer_check, aml_trigger_rst_rxd, aml_rx_task).
THEOREM RingInvariant == Spec => []RxInv
<1>1. Init => RxInv
  BY RxInitInv
<1>2. RxInv /\ [Next]_vars => RxInv'
  BY RxStep
<1>. QED  BY <1>1, <1>2, PTL DEF Spec

\* The ring implements the channel: the packets that the firmware publishes are handled in
\* that order, each once and as it was written, for any lengths of the ring, any sizes of
\* packets and any number of buffers, also while the ring is narrowed and expanded.
THEOREM RingImplementsChannel == Spec => ImplementsRxChannel
<1>1. Init => Channel!Init
  BY DEF Init, Channel!Init
<1>2. RxInv /\ [Next]_vars => [Channel!Next]_<<sent, handled>>
  BY RxStep
<1>. QED  BY <1>1, <1>2, RingInvariant, PTL DEF Spec, ImplementsRxChannel, Channel!Spec
=============================================================================
