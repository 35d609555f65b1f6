----------------------- MODULE PropagatorSessionProofs -----------------------
(***************************************************************************)
(* What a session keeps true for any circuits, any number of partitions,   *)
(* of calls and of failures.  ReplayInv is inductive: the order of replay  *)
(* comes down to the algebra of Reverse and \o on the rotations.  On top   *)
(* of it AxisInv says where the layers are on the parameter axis, and      *)
(* which gate indices they have.                                           *)
(***************************************************************************)
EXTENDS PropagatorSession, SequenceLemmas, FiniteSetTheorems, FunctionTheorems

Rotation == Seq(Nat)
LayerOf(A) == [of : Rotation, angle : A, gate : Nat]

\* The layers of the graph are those with numbers for angles.
LEMMA LayersAre == Layers = LayerOf(Nat)
  BY DEF Layers, LayerOf, Rotation

------------------------------------------------------------------------------
(***************************************************************************)
(* The rotations of a sequence of layers                                   *)
(***************************************************************************)

\* One rotation per layer, in the same order.
LEMMA RotationsType ==
  ASSUME NEW A, NEW g \in Seq(LayerOf(A)), NEW n, Len(g) = n
  PROVE  /\ Rotations(g) \in Seq(Rotation) /\ Len(Rotations(g)) = n
         /\ \A i \in 1..n : Rotations(g)[i] = g[i].of
<1>1. n \in Nat /\ DOMAIN g = 1..n
  BY LenProperties
<1>2. \A i \in 1..n : g[i].of \in Rotation
  <2>1. \A i \in 1..n : g[i] \in LayerOf(A)
    BY ElementOfSeq
  <2>2. QED
    BY <2>1 DEF LayerOf
<1>3. Rotations(g) = [i \in 1..n |-> g[i].of]
  BY <1>1 DEF Rotations
<1>4. Rotations(g) \in [1..n -> Rotation]
  BY <1>2, <1>3
<1>5. QED
  BY <1>1, <1>3, <1>4, SeqDef

\* Layers with the same rotations have them in the same order.
LEMMA SameRotations ==
  ASSUME NEW A, NEW g \in Seq(LayerOf(A)), NEW B, NEW h \in Seq(LayerOf(B)),
         NEW n, Len(g) = n, Len(h) = n, \A i \in 1..n : g[i].of = h[i].of
  PROVE  Rotations(g) = Rotations(h)
<1>1. PICK a \in Seq(Rotation) : a = Rotations(g) /\ Len(a) = n /\ \A i \in 1..n : a[i] = g[i].of
  BY RotationsType
<1>2. PICK b \in Seq(Rotation) : b = Rotations(h) /\ Len(b) = n /\ \A i \in 1..n : b[i] = h[i].of
  BY RotationsType
<1>3. a = b
  BY <1>1, <1>2, SameSequence
<1>4. QED
  BY <1>1, <1>2, <1>3

\* No layers, no rotations.
LEMMA RotationsEmpty == Rotations(<<>>) = <<>>
  BY DEF Rotations

\* The rotations of two graphs in turn ...
LEMMA RotationsConcat ==
  ASSUME NEW A, NEW g \in Seq(LayerOf(A)), NEW h \in Seq(LayerOf(A))
  PROVE  Rotations(g \o h) = Rotations(g) \o Rotations(h)
<1>1. PICK m \in Nat, n \in Nat : m = Len(g) /\ n = Len(h)
  BY LenProperties
<1>2. PICK gh \in Seq(LayerOf(A)) :
        gh = g \o h /\ Len(gh) = m + n /\ \A i \in 1..(m + n) : gh[i] = IF i <= m THEN g[i] ELSE h[i - m]
  <2>1. /\ g \o h \in Seq(LayerOf(A)) /\ Len(g \o h) = Len(g) + Len(h)
        /\ \A i \in 1..(Len(g) + Len(h)) :
             (g \o h)[i] = IF i <= Len(g) THEN g[i] ELSE h[i - Len(g)]
    BY ConcatProperties
  <2>2. QED
    BY <1>1, <2>1
<1>3. PICK a \in Seq(Rotation) : a = Rotations(g) /\ Len(a) = m /\ \A i \in 1..m : a[i] = g[i].of
  BY <1>1, RotationsType
<1>4. PICK b \in Seq(Rotation) : b = Rotations(h) /\ Len(b) = n /\ \A i \in 1..n : b[i] = h[i].of
  BY <1>1, RotationsType
<1>5. PICK c \in Seq(Rotation) :
        c = Rotations(gh) /\ Len(c) = m + n /\ \A i \in 1..(m + n) : c[i] = gh[i].of
  <2>1. Len(gh) = m + n
    BY <1>2
  <2>2. QED
    BY <2>1, RotationsType
<1>6. Len(c) = Len(a) + Len(b)
  BY <1>3, <1>4, <1>5
<1>7. \A i \in 1..Len(a) : c[i] = a[i]
  <2>1. ASSUME NEW i \in 1..m PROVE c[i] = a[i]
    <3>1. i \in 1..(m + n) /\ i <= m
      OBVIOUS
    <3>2. c[i] = g[i].of
      BY <1>2, <1>5, <3>1
    <3>3. QED
      BY <1>3, <3>2
  <2>2. QED
    BY <1>3, <2>1
<1>8. \A i \in 1..Len(b) : c[Len(a) + i] = b[i]
  <2>1. ASSUME NEW i \in 1..n PROVE c[m + i] = b[i]
    <3>1. PICK j \in 1..(m + n) : j = m + i /\ ~(j <= m) /\ j - m = i
      OBVIOUS
    <3>2. c[j] = h[i].of
      BY <1>2, <1>5, <3>1
    <3>3. QED
      BY <1>4, <3>1, <3>2
  <2>2. QED
    BY <1>3, <1>4, <2>1
<1>9. c = a \o b
  BY <1>6, <1>7, <1>8, Joined
<1>10. QED
  BY <1>2, <1>3, <1>4, <1>5, <1>9

\* ... and of a graph read backwards.
LEMMA RotationsReverse ==
  ASSUME NEW A, NEW g \in Seq(LayerOf(A))
  PROVE  Rotations(Reverse(g)) = Reverse(Rotations(g))
<1>1. PICK n \in Nat : n = Len(g)
  BY LenProperties
<1>2. PICK r \in Seq(LayerOf(A)) : /\ r = Reverse(g) /\ Len(r) = n
                                   /\ \A i \in 1..n : r[i] = g[(n - i) + 1]
  <2>1. /\ Reverse(g) \in Seq(LayerOf(A)) /\ Len(Reverse(g)) = Len(g)
        /\ \A i \in 1..Len(g) : Reverse(g)[i] = g[(Len(g) - i) + 1]
    BY ReverseProperties
  <2>2. QED
    BY <1>1, <2>1
<1>3. PICK a \in Seq(Rotation) : a = Rotations(g) /\ Len(a) = n /\ \A i \in 1..n : a[i] = g[i].of
  BY <1>1, RotationsType
<1>4. PICK b \in Seq(Rotation) : b = Rotations(r) /\ Len(b) = n /\ \A i \in 1..n : b[i] = r[i].of
  <2>1. Len(r) = n
    BY <1>2
  <2>2. QED
    BY <2>1, RotationsType
<1>5. PICK c \in Seq(Rotation) : /\ c = Reverse(a) /\ Len(c) = n
                                 /\ \A i \in 1..n : c[i] = a[(n - i) + 1]
  <2>1. /\ Reverse(a) \in Seq(Rotation) /\ Len(Reverse(a)) = Len(a)
        /\ \A i \in 1..Len(a) : Reverse(a)[i] = a[(Len(a) - i) + 1]
    BY ReverseProperties
  <2>2. QED
    BY <1>3, <2>1
<1>6. ASSUME NEW i \in 1..n PROVE b[i] = c[i]
  <2>1. PICK j \in 1..n : j = (n - i) + 1
    OBVIOUS
  <2>2. b[i] = g[j].of
    BY <1>2, <1>4, <2>1
  <2>3. c[i] = g[j].of
    BY <1>3, <1>5, <2>1
  <2>4. QED
    BY <2>2, <2>3
<1>7. b = c
  BY <1>4, <1>5, <1>6, SameSequence
<1>8. QED
  BY <1>2, <1>3, <1>4, <1>5, <1>7

------------------------------------------------------------------------------
(***************************************************************************)
(* Circuits                                                                *)
(***************************************************************************)

\* Gate indices are below n_gates.
LEMMA NGatesType ==
  ASSUME NEW g \in Seq(Layers)
  PROVE  /\ NGates(g) \in Nat
         /\ \A l \in DOMAIN g : g[l].gate + 1 \in 1..NGates(g)
<1>1. PICK n \in Nat : n = Len(g) /\ DOMAIN g = 1..n
  BY LenProperties
<1>2. CASE n = 0
  <2>1. g = <<>>
    BY <1>1, <1>2, EmptySeq
  <2>2. QED
    BY <1>1, <1>2, <2>1 DEF NGates
<1>3. CASE n # 0
  <2>1. PICK f : f = [i \in 1..n |-> g[i].gate]
    OBVIOUS
  <2>2. \A i \in 1..n : f[i] \in Nat /\ f[i] = g[i].gate
    <3>1. \A i \in 1..n : g[i] \in Layers
      BY <1>1, ElementOfSeq
    <3>2. QED
      BY <2>1, <3>1 DEF Layers
  <2>3. {g[l].gate : l \in DOMAIN g} = {f[i] : i \in 1..n}
    BY <1>1, <2>2
  <2>4. PICK top \in Nat : /\ top = Max({f[i] : i \in 1..n})
                           /\ \A i \in 1..n : f[i] <= top
    BY <1>3, <2>2, MaxOfMembers
  <2>5. NGates(g) = top + 1
    <3>1. g # <<>>
      BY <1>1, <1>3, EmptySeq
    <3>2. QED
      BY <2>3, <2>4, <3>1 DEF NGates
  <2>6. ASSUME NEW l \in 1..n PROVE g[l].gate + 1 \in 1..NGates(g)
    <3>1. f[l] \in Nat /\ f[l] = g[l].gate /\ f[l] <= top
      BY <2>2, <2>4
    <3>2. QED
      BY <2>5, <3>1
  <2>7. QED
    BY <1>1, <2>5, <2>6
<1>4. QED
  BY <1>2, <1>3

\* Something with angles has a number of parameters.
LEMMA NParametersType ==
  ASSUME NEW n \in Nat, NEW c, c = <<>> <=> n = 0, DOMAIN c = 1..n,
         \A i \in 1..n : c[i].angle \in Nat
  PROVE  NParameters(c) \in Nat
<1>1. CASE n = 0
  BY <1>1 DEF NParameters
<1>2. CASE n # 0
  <2>1. PICK f : f = [i \in 1..n |-> c[i].angle]
    OBVIOUS
  <2>2. \A i \in 1..n : f[i] \in Nat /\ f[i] = c[i].angle
    BY <2>1
  <2>3. {c[g].angle : g \in DOMAIN c} = {f[i] : i \in 1..n}
    BY <2>2
  <2>4. Max({f[i] : i \in 1..n}) \in Nat
    BY <1>2, <2>2, MaxOfMembers
  <2>5. NParameters(c) = Max({f[i] : i \in 1..n}) + 1
    BY <1>2, <2>3 DEF NParameters
  <2>6. QED
    BY <2>4, <2>5
<1>3. QED
  BY <1>1, <1>2

Gates == [angle : Nat, terms : Nat \ {0}]

\* A circuit has a number of parameters, and its monomials are layers.
LEMMA CircuitType ==
  ASSUME NEW c \in Circuits
  PROVE  /\ c \in Seq(Gates) /\ NParameters(c) \in Nat
         /\ \A call \in Nat : ExpandMonomials(c, call) \in Seq(Layers)
<1>1. c \in Seq(Gates)
  BY SessionAssumption DEF Gates
<1>2. PICK n \in Nat : n = Len(c) /\ DOMAIN c = 1..n
  BY <1>1, LenProperties
<1>3. \A i \in 1..n : c[i].angle \in Nat /\ c[i].terms \in Nat
  <2>1. \A i \in 1..n : c[i] \in Gates
    BY <1>1, <1>2, ElementOfSeq
  <2>2. QED
    BY <2>1 DEF Gates
<1>4. NParameters(c) \in Nat
  <2>1. c = <<>> <=> n = 0
    BY <1>1, <1>2, EmptySeq
  <2>2. QED
    BY <1>2, <1>3, <2>1, NParametersType
<1>5. ASSUME NEW call \in Nat PROVE ExpandMonomials(c, call) \in Seq(Layers)
  <2> DEFINE Terms(g) == [t \in 1..c[g].terms |->
                            [of |-> <<call, g, t>>, angle |-> c[g].angle, gate |-> g - 1]]
  <2>1. ASSUME NEW g \in 1..n PROVE Terms(g) \in Seq(Layers)
    <3>1. PICK m \in Nat : m = c[g].terms
      BY <1>3
    <3>2. \A t \in 1..m : [of |-> <<call, g, t>>, angle |-> c[g].angle, gate |-> g - 1] \in Layers
      <4>1. \A t \in 1..m : <<call, g, t>> \in Seq(Nat)
        OBVIOUS
      <4>2. QED
        BY <1>3, <4>1 DEF Layers
    <3>3. [t \in 1..m |-> [of |-> <<call, g, t>>, angle |-> c[g].angle, gate |-> g - 1]]
            \in [1..m -> Layers]
      BY <3>2
    <3>4. [t \in 1..m |-> [of |-> <<call, g, t>>, angle |-> c[g].angle, gate |-> g - 1]]
            \in Seq(Layers)
      BY <3>3, SeqDef
    <3>5. QED
      BY <3>1, <3>4 DEF Terms
  <2> HIDE DEF Terms
  <2>2. [g \in 1..n |-> Terms(g)] \in [1..n -> Seq(Layers)]
    BY <2>1
  <2>3. [g \in 1..n |-> Terms(g)] \in Seq(Seq(Layers))
    BY <2>2, SeqDef
  <2>4. FlattenSeq([g \in 1..n |-> Terms(g)]) \in Seq(Layers)
    BY <2>3, FlattenType
  <2>5. QED
    BY <1>2, <2>4 DEF ExpandMonomials, Terms
<1>6. QED
  BY <1>1, <1>4, <1>5

\* A layer with another angle has the same rotation.
LEMMA Relabel ==
  ASSUME NEW A, NEW r \in LayerOf(A), NEW C, NEW a \in C
  PROVE  [r EXCEPT !.angle = a] \in LayerOf(C) /\ [r EXCEPT !.angle = a].of = r.of
  BY DEF LayerOf

\* The same for all layers of a graph.
LEMMA RelabelAll ==
  ASSUME NEW A, NEW r \in Seq(LayerOf(A)), NEW C, NEW h \in [DOMAIN r -> LayerOf(C)],
         \A i \in DOMAIN r : h[i].of = r[i].of
  PROVE  h \in Seq(LayerOf(C)) /\ Len(h) = Len(r) /\ Rotations(h) = Rotations(r)
<1>1. PICK n \in Nat : n = Len(r) /\ DOMAIN r = 1..n
  BY LenProperties
<1>2. h \in Seq(LayerOf(C)) /\ Len(h) = n
  BY <1>1, SeqDef
<1>3. PICK a \in Seq(Rotation) : a = Rotations(r) /\ Len(a) = n /\ \A i \in 1..n : a[i] = r[i].of
  BY <1>1, RotationsType
<1>4. PICK b \in Seq(Rotation) : b = Rotations(h) /\ Len(b) = n /\ \A i \in 1..n : b[i] = h[i].of
  BY <1>2, RotationsType
<1>5. a = b
  <2>1. Len(a) = n /\ Len(b) = n /\ \A i \in 1..n : a[i] = b[i]
    BY <1>1, <1>3, <1>4
  <2>2. QED
    BY <2>1, SameSequence
<1>6. QED
  BY <1>1, <1>2, <1>3, <1>4, <1>5

\* The angles of a circuit are a set of their own.
LEMMA OwnAngles ==
  ASSUME NEW A, NEW s \in Seq(LayerOf(A))
  PROVE  s \in Seq(LayerOf({s[i].angle : i \in DOMAIN s}))
<1>1. PICK n \in Nat : n = Len(s) /\ DOMAIN s = 1..n
  BY LenProperties
<1>2. PICK B : B = {s[i].angle : i \in DOMAIN s}
  OBVIOUS
<1>3. ASSUME NEW i \in 1..n PROVE s[i] \in LayerOf(B)
  <2>1. s[i] \in LayerOf(A)
    BY <1>1, ElementOfSeq
  <2>2. s[i].angle \in B
    BY <1>1, <1>2
  <2>3. QED
    BY <2>1, <2>2 DEF LayerOf
<1>4. s \in [1..n -> LayerOf(B)]
  <2>1. s = [i \in 1..n |-> s[i]]
    BY <1>1, LenProperties
  <2>2. QED
    BY <1>3, <2>1
<1>5. s \in Seq(LayerOf(B))
  BY <1>4, SeqDef
<1>6. QED
  BY <1>2, <1>5

\* Circuit.__add__ keeps the rotations of its halves, whatever happens to the angles.
LEMMA ConcatenateRotations ==
  ASSUME NEW A, NEW l \in Seq(LayerOf(A)), NEW B, NEW r \in Seq(LayerOf(B))
  PROVE  /\ \E C : Concatenate(l, r) \in Seq(LayerOf(C))
         /\ Rotations(Concatenate(l, r)) = Rotations(l) \o Rotations(r)
<1>1. PICK n \in Nat : n = Len(r) /\ DOMAIN r = 1..n
  BY LenProperties
<1>2. PICK a : a = [i \in 1..n |-> r[i].angle + NParameters(l)]
  OBVIOUS
<1>3. PICK C : C = A \union {a[i] : i \in 1..n}
  OBVIOUS
<1>4. PICK h : h = [i \in 1..n |-> [r[i] EXCEPT !.angle = a[i]]]
  OBVIOUS
<1>5. \A i \in 1..n : h[i] \in LayerOf(C) /\ h[i].of = r[i].of
  <2>1. TAKE i \in 1..n
  <2>2. PICK q \in LayerOf(B), b \in C : q = r[i] /\ b = a[i]
    BY <1>1, <1>3, ElementOfSeq
  <2>3. h[i] = [q EXCEPT !.angle = b]
    BY <1>4, <2>2
  <2>4. QED
    BY <2>2, <2>3, Relabel
<1>6. h \in Seq(LayerOf(C)) /\ Rotations(h) = Rotations(r)
  <2>1. h \in [DOMAIN r -> LayerOf(C)]
    BY <1>1, <1>4, <1>5
  <2>2. \A i \in DOMAIN r : h[i].of = r[i].of
    BY <1>1, <1>5
  <2>3. QED
    BY <2>1, <2>2, RelabelAll
<1>7. l \in Seq(LayerOf(C))
  <2>1. PICK m \in Nat : m = Len(l) /\ l \in [1..m -> LayerOf(A)]
    BY LenProperties
  <2>2. LayerOf(A) \subseteq LayerOf(C)
    BY <1>3 DEF LayerOf
  <2>3. l \in [1..m -> LayerOf(C)]
    BY <2>1, <2>2
  <2>4. QED
    BY <2>3, SeqDef
<1>8. Concatenate(l, r) = l \o h
  <2>1. \A i \in 1..n : [r[i] EXCEPT !.angle = @ + NParameters(l)]
                           = [r[i] EXCEPT !.angle = a[i]]
    BY <1>2
  <2>2. [i \in DOMAIN r |-> [r[i] EXCEPT !.angle = @ + NParameters(l)]] = h
    BY <1>1, <1>4, <2>1
  <2>3. QED
    BY <2>2 DEF Concatenate
<1>9. l \o h \in Seq(LayerOf(C)) /\ Rotations(l \o h) = Rotations(l) \o Rotations(h)
  BY <1>6, <1>7, RotationsConcat, ConcatProperties
<1>10. QED
  BY <1>6, <1>8, <1>9

------------------------------------------------------------------------------
(***************************************************************************)
(* The graph                                                               *)
(***************************************************************************)

\* A layer that moves on the axis and among the gates has the same rotation.
LEMMA Moved ==
  ASSUME NEW r \in LayerOf(Nat), NEW a \in Nat, NEW b \in Nat
  PROVE  /\ [r EXCEPT !.angle = @ + a, !.gate = @ + b] \in LayerOf(Nat)
         /\ [r EXCEPT !.angle = @ + a, !.gate = @ + b].of = r.of
<1>1. PICK d \in Nat, e \in Nat : d = r.angle + a /\ e = r.gate + b
  BY DEF LayerOf
<1>2. [r EXCEPT !.angle = @ + a, !.gate = @ + b] = [r EXCEPT !.angle = d, !.gate = e]
  BY <1>1
<1>3. [r EXCEPT !.angle = d, !.gate = e] \in LayerOf(Nat)
  BY DEF LayerOf
<1>4. [r EXCEPT !.angle = d, !.gate = e].of = r.of
  BY DEF LayerOf
<1>5. QED
  BY <1>2, <1>3, <1>4

\* The layers of a circuit have its rotations, on top of any graph.
LEMMA NewLayersType ==
  ASSUME NEW g \in Seq(Layers), NEW c \in Circuits, nParams \in Nat, calls \in Nat
  PROVE  LET own == ExpandMonomials(c, calls + 1)
         IN  /\ NewLayers(g, c) \in Seq(Layers) /\ Len(NewLayers(g, c)) = Len(own)
             /\ Rotations(NewLayers(g, c)) = Rotations(own)
<1>1. PICK k \in Nat : k = calls + 1
  OBVIOUS
<1>2. PICK own \in Seq(LayerOf(Nat)) : own = ExpandMonomials(c, calls + 1)
  <2>1. ExpandMonomials(c, k) \in Seq(Layers)
    BY CircuitType
  <2>2. QED
    BY <1>1, <2>1, LayersAre
<1>3. PICK b \in Nat : b = NGates(g)
  BY NGatesType
<1>4. PICK h : h = [i \in DOMAIN own |-> [own[i] EXCEPT !.angle = @ + nParams, !.gate = @ + b]]
  OBVIOUS
<1>5. \A i \in DOMAIN own : h[i] \in LayerOf(Nat) /\ h[i].of = own[i].of
  <2>1. TAKE i \in DOMAIN own
  <2>2. PICK q \in LayerOf(Nat), a \in Nat : q = own[i] /\ a = nParams
    BY ElementOfSeq, LenProperties
  <2>3. h[i] = [q EXCEPT !.angle = @ + a, !.gate = @ + b]
    BY <1>4, <2>2
  <2>4. /\ [q EXCEPT !.angle = @ + a, !.gate = @ + b] \in LayerOf(Nat)
        /\ [q EXCEPT !.angle = @ + a, !.gate = @ + b].of = q.of
    BY Moved
  <2>5. QED
    BY <2>2, <2>3, <2>4
<1>6. h \in [DOMAIN own -> LayerOf(Nat)]
  BY <1>4, <1>5
<1>7. h \in Seq(LayerOf(Nat)) /\ Len(h) = Len(own) /\ Rotations(h) = Rotations(own)
  BY <1>5, <1>6, RelabelAll
<1>8. h = NewLayers(g, c)
  BY <1>2, <1>3, <1>4 DEF NewLayers
<1>9. QED
  BY <1>2, <1>7, <1>8, LayersAre

\* The loop goes over the gates in either order, and what it went over is a prefix.
LEMMA LoopOrderType ==
  ASSUME NEW S, NEW r \in Seq(S)
  PROVE  /\ LoopOrder(r) \in Seq(S) /\ Len(LoopOrder(r)) = Len(r)
         /\ SubSeq(LoopOrder(r), 1, Len(r)) = LoopOrder(r)
         /\ \A n \in 0..Len(r) : /\ SubSeq(LoopOrder(r), 1, n) \in Seq(S)
                                 /\ Len(SubSeq(LoopOrder(r), 1, n)) = n
<1>1. LoopOrder(r) \in Seq(S) /\ Len(LoopOrder(r)) = Len(r)
  BY ReverseProperties DEF LoopOrder
<1>2. PICK x \in Seq(S) : x = LoopOrder(r)
  BY <1>1
<1>3. PICK l \in Nat : l = Len(x) /\ l = Len(r)
  BY <1>1, <1>2, LenProperties
<1>4. SubSeq(x, 1, l) = x
  BY <1>3, SubSeqFull
<1>5. ASSUME NEW n \in 0..l PROVE SubSeq(x, 1, n) \in Seq(S) /\ Len(SubSeq(x, 1, n)) = n
  <2>1. \A i \in 1..n : x[i] \in S
    <3>1. \A i \in 1..n : i \in 1..l
      OBVIOUS
    <3>2. QED
      BY <1>3, <3>1, ElementOfSeq
  <2>2. PICK m \in Int : m = n
    OBVIOUS
  <2>3. /\ SubSeq(x, 1, m) \in Seq(S)
        /\ Len(SubSeq(x, 1, m)) = IF 1 <= m THEN m - 1 + 1 ELSE 0
    BY <2>1, <2>2, SubSeqProperties
  <2>4. QED
    BY <2>2, <2>3
<1>6. QED
  BY <1>1, <1>2, <1>3, <1>4, <1>5

\* Layers that are appended one by one end up before or behind the stored ones.
LEMMA AppendLayersType ==
  ASSUME NEW g \in Seq(Layers), NEW x \in Seq(Layers)
  PROVE  /\ AppendLayers(g, x) \in Seq(Layers)
         /\ Len(AppendLayers(g, x)) = Len(g) + Len(x)
         /\ Rotations(AppendLayers(g, x)) =
              IF schrodinger THEN Reverse(Rotations(x)) \o Rotations(g)
                             ELSE Rotations(g) \o Rotations(x)
<1>1. PICK m \in Nat, n \in Nat : m = Len(g) /\ n = Len(x) /\ n + m = m + n
  BY LenProperties
<1>2. CASE schrodinger
  <2>1. PICK y \in Seq(Layers) : y = Reverse(x) /\ Len(y) = Len(x)
    BY ReverseProperties
  <2>2. y \o g \in Seq(Layers) /\ Len(y \o g) = Len(y) + Len(g)
    BY ConcatProperties
  <2>3. Rotations(y \o g) = Rotations(y) \o Rotations(g)
    BY LayersAre, RotationsConcat
  <2>4. Rotations(y) = Reverse(Rotations(x))
    BY <2>1, LayersAre, RotationsReverse
  <2>5. QED
    BY <1>1, <1>2, <2>1, <2>2, <2>3, <2>4 DEF AppendLayers
<1>3. CASE ~schrodinger
  <2>1. g \o x \in Seq(Layers) /\ Len(g \o x) = Len(g) + Len(x)
    BY ConcatProperties
  <2>2. Rotations(g \o x) = Rotations(g) \o Rotations(x)
    BY LayersAre, RotationsConcat
  <2>3. QED
    BY <1>3, <2>1, <2>2 DEF AppendLayers
<1>4. QED
  BY <1>2, <1>3

\* What a gate loop appended, also when it was left early.
LEMMA GrownType ==
  ASSUME NEW g \in Seq(Layers), NEW c \in Circuits, nParams \in Nat, calls \in Nat,
         NEW n \in 0..Len(ExpandMonomials(c, calls + 1))
  PROVE  Grown(g, c, n) \in Seq(Layers) /\ Len(Grown(g, c, n)) = Len(g) + n
<1>1. PICK new \in Seq(Layers) : /\ new = NewLayers(g, c)
                                 /\ Len(new) = Len(ExpandMonomials(c, calls + 1))
  BY NewLayersType
<1>2. n \in 0..Len(new)
  BY <1>1
<1>3. PICK x \in Seq(Layers) : x = SubSeq(LoopOrder(new), 1, n) /\ Len(x) = n
  <2>1. SubSeq(LoopOrder(new), 1, n) \in Seq(Layers) /\ Len(SubSeq(LoopOrder(new), 1, n)) = n
    BY <1>2, LoopOrderType
  <2>2. QED
    BY <2>1
<1>4. Grown(g, c, n) = AppendLayers(g, x)
  BY <1>1, <1>3 DEF Grown
<1>5. AppendLayers(g, x) \in Seq(Layers) /\ Len(AppendLayers(g, x)) = Len(g) + Len(x)
  BY AppendLayersType
<1>6. QED
  BY <1>3, <1>4, <1>5

\* A gate loop that ran to its end appended the circuit's rotations, in the order in
\* which the picture stores them.
LEMMA GrownRotations ==
  ASSUME NEW g \in Seq(Layers), NEW c \in Circuits, nParams \in Nat, calls \in Nat,
         NEW own, own = Rotations(ExpandMonomials(c, calls + 1))
  PROVE  /\ Len(NewLayers(g, c)) \in 0..Len(ExpandMonomials(c, calls + 1))
         /\ Rotations(Grown(g, c, Len(NewLayers(g, c)))) =
              IF schrodinger THEN Reverse(own) \o Rotations(g)
                             ELSE Rotations(g) \o Reverse(own)
<1>1. PICK new \in Seq(Layers) : /\ new = NewLayers(g, c) /\ Rotations(new) = own
                                 /\ Len(new) = Len(ExpandMonomials(c, calls + 1))
  BY NewLayersType
<1>2. Len(new) \in Nat
  BY LenProperties
<1>3. PICK x \in Seq(Layers) : x = LoopOrder(new) /\ x = SubSeq(LoopOrder(new), 1, Len(new))
  BY LoopOrderType
<1>4. Grown(g, c, Len(new)) = AppendLayers(g, x)
  BY <1>1, <1>3 DEF Grown
<1>5. Rotations(x) = IF schrodinger THEN own ELSE Reverse(own)
  BY <1>1, <1>3, LayersAre, RotationsReverse DEF LoopOrder
<1>6. Rotations(AppendLayers(g, x)) =
              IF schrodinger THEN Reverse(Rotations(x)) \o Rotations(g)
                             ELSE Rotations(g) \o Rotations(x)
  BY AppendLayersType
<1>7. Rotations(Grown(g, c, Len(new))) =
              IF schrodinger THEN Reverse(own) \o Rotations(g)
                             ELSE Rotations(g) \o Reverse(own)
  BY <1>4, <1>5, <1>6
<1>8. Len(new) \in 0..Len(ExpandMonomials(c, calls + 1))
  BY <1>1, <1>2
<1>9. QED
  BY <1>1, <1>7, <1>8

\* Another mapping changes the angles and nothing else.
LEMMA SetParameterMappingType ==
  ASSUME NEW g \in Seq(Layers), NEW mapping \in Seq(Nat),
         Len(mapping) = Len(g) \/ Len(mapping) = NGates(g)
  PROVE  /\ SetParameterMapping(g, mapping) \in Seq(Layers)
         /\ Len(SetParameterMapping(g, mapping)) = Len(g)
         /\ Rotations(SetParameterMapping(g, mapping)) = Rotations(g)
<1>1. PICK n \in Nat : n = Len(g) /\ DOMAIN g = 1..n
  BY LenProperties
<1>2. PICK a : a = [l \in DOMAIN g |-> IF Len(mapping) = Len(g) THEN mapping[Len(g) + 1 - l]
                                       ELSE mapping[g[l].gate + 1]]
  OBVIOUS
<1>3. ASSUME NEW l \in DOMAIN g PROVE a[l] \in Nat
  <2>1. CASE Len(mapping) = Len(g)
    <3>1. Len(g) + 1 - l \in 1..Len(mapping)
      BY <1>1, <2>1
    <3>2. mapping[Len(g) + 1 - l] \in Nat
      BY <3>1, ElementOfSeq
    <3>3. QED
      BY <1>2, <2>1, <3>2
  <2>2. CASE Len(mapping) # Len(g)
    <3>1. g[l].gate + 1 \in 1..Len(mapping)
      BY <2>2, NGatesType
    <3>2. mapping[g[l].gate + 1] \in Nat
      BY <3>1, ElementOfSeq
    <3>3. QED
      BY <1>2, <2>2, <3>2
  <2>3. QED
    BY <2>1, <2>2
<1>4. PICK h : h = [l \in DOMAIN g |-> [g[l] EXCEPT !.angle = a[l]]]
  OBVIOUS
<1>5. \A l \in DOMAIN g : h[l] \in LayerOf(Nat) /\ h[l].of = g[l].of
  <2>1. TAKE l \in DOMAIN g
  <2>2. PICK q \in LayerOf(Nat), b \in Nat : q = g[l] /\ b = a[l]
    BY <1>1, <1>3, LayersAre, ElementOfSeq
  <2>3. h[l] = [q EXCEPT !.angle = b]
    BY <1>4, <2>2
  <2>4. [q EXCEPT !.angle = b] \in LayerOf(Nat) /\ [q EXCEPT !.angle = b].of = q.of
    BY Relabel
  <2>5. QED
    BY <2>2, <2>3, <2>4
<1>6. h \in [DOMAIN g -> LayerOf(Nat)]
  BY <1>4, <1>5
<1>7. g \in Seq(LayerOf(Nat))
  BY LayersAre
<1>8. h \in Seq(LayerOf(Nat)) /\ Len(h) = Len(g) /\ Rotations(h) = Rotations(g)
  BY <1>5, <1>6, <1>7, RelabelAll
<1>9. SetParameterMapping(g, mapping) = h
  <2>1. \A l \in DOMAIN g : [g[l] EXCEPT !.angle = a[l]] =
          [g[l] EXCEPT !.angle = IF Len(mapping) = Len(g) THEN mapping[Len(g) + 1 - l]
                                 ELSE mapping[g[l].gate + 1]]
    BY <1>2
  <2>2. QED
    BY <1>4, <2>1 DEF SetParameterMapping
<1>10. QED
  BY <1>8, <1>9, LayersAre

\* The mappings of length n are of length n, and use a number of parameters.
LEMMA RewiringsType ==
  ASSUME NEW n \in Nat \ {0}, NEW m \in Rewirings(n)
  PROVE  m \in Seq(Nat) /\ Len(m) = n /\ Max(Range(m)) + 1 \in Nat
<1>1. m \in [1..n -> Nat]
  <2>1. CASE m = [i \in 1..n |-> i - 1]
    BY <2>1
  <2>2. CASE m = [i \in 1..n |-> n - i]
    BY <2>2
  <2>3. CASE m = [i \in 1..n |-> i % 2]
    BY <2>3
  <2>4. CASE m = [i \in 1..n |-> 0]
    BY <2>4
  <2>5. QED
    BY <2>1, <2>2, <2>3, <2>4 DEF Rewirings
<1>2. m \in Seq(Nat) /\ Len(m) = n /\ DOMAIN m = 1..n
  BY <1>1, SeqDef
<1>3. Range(m) = {m[i] : i \in 1..n}
  BY <1>2 DEF Range
<1>4. \A i \in 1..n : m[i] \in Nat
  BY <1>1
<1>5. Max({m[i] : i \in 1..n}) \in Nat
  BY <1>4, MaxOfMembers
<1>6. QED
  BY <1>2, <1>3, <1>5

\* Wrapping the axis around keeps every angle a number.
LEMMA RotatedType ==
  ASSUME NEW g \in Seq(Layers), NEW new \in Nat, NEW n \in Nat \ {0}, NEW old,
         old = ParameterMapping(g)
  PROVE  /\ [i \in DOMAIN old |-> Lifted(old[i], new, n)] \in Seq(Nat)
         /\ Len([i \in DOMAIN old |-> Lifted(old[i], new, n)]) = Len(g)
<1>1. PICK l \in Nat : l = Len(g) /\ DOMAIN g = 1..l
  BY LenProperties
<1>2. DOMAIN old = 1..l
  BY <1>1 DEF ParameterMapping
<1>3. ASSUME NEW i \in 1..l PROVE Lifted(old[i], new, n) \in Nat
  <2>1. PICK j \in 1..l : j = Len(g) + 1 - i
    BY <1>1
  <2>2. g[j] \in Layers
    BY <1>1, ElementOfSeq
  <2>3. old[i] = g[j].angle
    BY <1>1, <2>1 DEF ParameterMapping
  <2>4. PICK m \in Nat : m = old[i]
    BY <2>2, <2>3 DEF Layers
  <2>5. (m + new) % n \in Nat
    OBVIOUS
  <2>6. QED
    BY <2>4, <2>5 DEF Lifted
<1>4. [i \in 1..l |-> Lifted(old[i], new, n)] \in [1..l -> Nat]
  BY <1>3
<1>5. QED
  BY <1>1, <1>2, <1>4, SeqDef

------------------------------------------------------------------------------
(***************************************************************************)
(* The calls                                                               *)
(***************************************************************************)

\* A call starts with the same layers on every partition.
LEMMA CallFacts ==
  ASSUME ReplayInv, Call
  PROVE  /\ \A p, q \in Parts : graph[p] = graph[q]
         /\ \A p \in Parts : graph[p] \in Seq(Layers)
         /\ FirstPart \in Parts
         /\ calls \in Nat /\ calls + 1 \in 0..MaxCalls /\ calls' = calls + 1
         /\ schrodinger' = schrodinger
  BY SessionAssumption DEF ReplayInv, SessionTypeOK, EqualLengthEqualLayers, Call

\* After a failure nothing is promised about the order any more.
LEMMA Broken ==
  ASSUME ReplayInv, BreaksOff
  PROVE  fails' \in 0..MaxFails /\ OrderInv' /\ TermValuesSeeCompletedCalls'
<1>1. fails' \in 0..MaxFails /\ fails' # 0
  BY SessionAssumption DEF ReplayInv, SessionTypeOK, BreaksOff
<1>2. QED
  BY <1>1 DEF OrderInv, TermValuesSeeCompletedCalls

\* The epochs and the functional, which most calls leave alone.
LEMMA EpochKept ==
  ASSUME ReplayInv, Call, UNCHANGED <<epoch, weights, functional>>
  PROVE  /\ epoch' \in [Parts -> 0..MaxCalls] /\ weights' \in [Parts -> 0..MaxCalls]
         /\ EpochInv'
<1>1. \A p \in Parts : epoch[p] \in Nat /\ weights[p] \in Nat
  BY DEF ReplayInv, SessionTypeOK
<1>2. calls \in Nat /\ calls' = calls + 1
  BY CallFacts
<1>3. \A p \in Parts : epoch'[p] <= calls' /\ weights'[p] <= calls'
  BY <1>1, <1>2 DEF ReplayInv, EpochInv
<1>4. functional' # None =>
        \A p \in Parts : /\ functional'.epoch[p] \in 0..epoch'[p]
                         /\ functional'.epoch[p] = epoch'[p] => functional'.weights[p] = weights'[p]
  BY DEF ReplayInv, EpochInv
<1>5. EpochInv'
  BY <1>3, <1>4 DEF EpochInv
<1>6. QED
  BY <1>5 DEF ReplayInv, SessionTypeOK

\* The equivalent circuit is one, whatever its angles.
LEMMA SingleTyped ==
  ASSUME NEW A, single' \in Seq(LayerOf(A))
  PROVE  SingleTypeOK'
<1>1. single' \in Seq(LayerOf({single'[i].angle : i \in DOMAIN single'}))
  BY OwnAngles
<1>2. QED
  BY <1>1 DEF SingleTypeOK, LayerOf, Rotation

\* The same before the call.
LEMMA SingleIs ==
  ASSUME ReplayInv
  PROVE  \E A : single \in Seq(LayerOf(A))
  BY DEF ReplayInv, SingleTypeOK, LayerOf, Rotation

\* The rotations of the circuit of a call.
LEMMA OwnRotations ==
  ASSUME NEW c \in Circuits, calls \in Nat
  PROVE  /\ ExpandMonomials(c, calls + 1) \in Seq(LayerOf(Nat))
         /\ Rotations(ExpandMonomials(c, calls + 1)) \in Seq(Rotation)
         /\ Len(Rotations(ExpandMonomials(c, calls + 1))) = Len(ExpandMonomials(c, calls + 1))
         /\ Len(ExpandMonomials(c, calls + 1)) \in Nat
<1>1. PICK k \in Nat : k = calls + 1
  OBVIOUS
<1>2. ExpandMonomials(c, k) \in Seq(LayerOf(Nat))
  BY CircuitType, LayersAre
<1>3. Len(ExpandMonomials(c, k)) \in Nat
  BY <1>2, LenProperties
<1>4. /\ Rotations(ExpandMonomials(c, k)) \in Seq(Rotation)
      /\ Len(Rotations(ExpandMonomials(c, k))) = Len(ExpandMonomials(c, k))
  BY <1>2, RotationsType
<1>5. QED
  BY <1>1, <1>2, <1>3, <1>4

(* build_graph *)

\* What build_graph leaves on every partition, the axis wrapped around or not.
LEMMA BuildGraph ==
  ASSUME ReplayInv, NEW c \in Circuits, Build(c),
         NEW own, own = Rotations(ExpandMonomials(c, calls + 1))
  PROVE  /\ nParams' \in Nat
         /\ graph' \in [Parts -> Seq(Layers)]
         /\ \A p, q \in Parts : graph'[p] = graph'[q]
         /\ \A p \in Parts : Rotations(graph'[p]) =
              IF schrodinger THEN Reverse(own) \o Rotations(graph[p])
                             ELSE Rotations(graph[p]) \o Reverse(own)
<1>1. /\ \A p, q \in Parts : graph[p] = graph[q]
      /\ \A p \in Parts : graph[p] \in Seq(Layers)
      /\ FirstPart \in Parts /\ calls \in Nat
  BY CallFacts DEF Build
<1>2. nParams \in Nat /\ NParameters(c) \in Nat
  BY CircuitType DEF ReplayInv, SessionTypeOK
<1>3. PICK g \in Seq(Layers) : \A p \in Parts : graph[p] = g
  BY <1>1
<1>4. PICK h \in Seq(Layers) : /\ h = Grown(g, c, Len(NewLayers(g, c)))
                               /\ Rotations(h) = IF schrodinger THEN Reverse(own) \o Rotations(g)
                                                 ELSE Rotations(g) \o Reverse(own)
  <2>1. PICK n \in 0..Len(ExpandMonomials(c, calls + 1)) : n = Len(NewLayers(g, c))
    BY <1>1, <1>2, GrownRotations
  <2>2. Grown(g, c, n) \in Seq(Layers)
    BY <1>1, <1>2, GrownType
  <2>3. Rotations(Grown(g, c, Len(NewLayers(g, c)))) =
          IF schrodinger THEN Reverse(own) \o Rotations(g) ELSE Rotations(g) \o Reverse(own)
    BY <1>1, <1>2, GrownRotations
  <2>4. QED
    BY <2>1, <2>2, <2>3
<1>5. nParams' = nParams + NParameters(c)
  BY DEF Build
<1>6. PICK grown : grown = [p \in Parts |-> Grown(graph[p], c, Len(NewLayers(graph[p], c)))]
  OBVIOUS
<1>7. \A p \in Parts : grown[p] = h
  BY <1>3, <1>4, <1>6
<1>8. PICK old : old = ParameterMapping(grown[FirstPart])
  OBVIOUS
<1>9. PICK rotated : rotated = [i \in DOMAIN old |-> Lifted(old[i], NParameters(c), nParams')]
  OBVIOUS
<1>10. graph' = IF RotatesAxis(c) THEN [p \in Parts |-> SetParameterMapping(grown[p], rotated)]
                ELSE grown
  BY <1>6, <1>8, <1>9 DEF Build
<1>11. PICK k \in Seq(Layers) : Rotations(k) = Rotations(h) /\ \A p \in Parts : graph'[p] = k
  <2>1. CASE RotatesAxis(c)
    <3>1. PICK new \in Nat, n \in Nat \ {0} : new = NParameters(c) /\ n = nParams'
      BY <1>2, <1>5, <2>1 DEF RotatesAxis
    <3>2. old = ParameterMapping(h)
      BY <1>1, <1>7, <1>8
    <3>3. rotated \in Seq(Nat) /\ Len(rotated) = Len(h)
      BY <1>9, <3>1, <3>2, RotatedType
    <3>4. /\ SetParameterMapping(h, rotated) \in Seq(Layers)
          /\ Rotations(SetParameterMapping(h, rotated)) = Rotations(h)
      BY <3>3, SetParameterMappingType
    <3>5. \A p \in Parts : graph'[p] = SetParameterMapping(h, rotated)
      BY <1>7, <1>10, <2>1
    <3>6. QED
      BY <3>4, <3>5
  <2>2. CASE ~RotatesAxis(c)
    BY <1>7, <1>10, <2>2
  <2>3. QED
    BY <2>1, <2>2
<1>12. graph' \in [Parts -> Seq(Layers)]
  BY <1>6, <1>10, <1>11
<1>13. nParams' \in Nat
  BY <1>2, <1>5
<1>14. \A p, q \in Parts : graph'[p] = graph'[q]
  BY <1>11
<1>15. ASSUME NEW p \in Parts
       PROVE  Rotations(graph'[p]) = IF schrodinger THEN Reverse(own) \o Rotations(graph[p])
                                     ELSE Rotations(graph[p]) \o Reverse(own)
  <2>1. graph[p] = g /\ graph'[p] = k
    BY <1>3, <1>11
  <2>2. Rotations(k) = Rotations(h)
    BY <1>11
  <2>3. QED
    BY <1>4, <2>1, <2>2
<1>16. QED
  BY <1>12, <1>13, <1>14, <1>15

\* A build that runs to its end: Reverse(s \o own) = Reverse(own) \o Reverse(s).
LEMMA BuildKeeps ==
  ASSUME ReplayInv, NEW c \in Circuits, Build(c)
  PROVE  ReplayInv'
<1>1. Call /\ Completes /\ UNCHANGED <<operand, absorbed, epoch, weights, functional, folded>>
  BY DEF Build
<1>2. calls \in Nat /\ calls' \in 0..MaxCalls /\ schrodinger' = schrodinger
  BY <1>1, CallFacts
<1>3. PICK own \in Seq(Rotation) : own = Rotations(ExpandMonomials(c, calls + 1))
  BY <1>2, OwnRotations
<1>4. /\ nParams' \in Nat
      /\ graph' \in [Parts -> Seq(Layers)]
      /\ \A p, q \in Parts : graph'[p] = graph'[q]
      /\ \A p \in Parts : Rotations(graph'[p]) =
              IF schrodinger THEN Reverse(own) \o Rotations(graph[p])
                             ELSE Rotations(graph[p]) \o Reverse(own)
  BY <1>3, BuildGraph
<1>5. EpochInv' /\ epoch' \in [Parts -> 0..MaxCalls] /\ weights' \in [Parts -> 0..MaxCalls]
  BY <1>1, EpochKept
<1>6. SessionTypeOK'
  BY <1>1, <1>2, <1>4, <1>5 DEF ReplayInv, SessionTypeOK, Completes
<1>7. PICK A : single \in Seq(LayerOf(A))
  BY SingleIs
<1>8. PICK s \in Seq(Rotation) : s = Rotations(single)
  BY <1>7, RotationsType
<1>9. /\ \E C : single' \in Seq(LayerOf(C))
      /\ Rotations(single') = IF schrodinger THEN s \o own ELSE own \o s
  <2>1. ExpandMonomials(c, calls + 1) \in Seq(LayerOf(Nat))
    BY <1>2, OwnRotations
  <2>2. CASE schrodinger
    <3>1. single' = Concatenate(single, ExpandMonomials(c, calls + 1))
      BY <2>2 DEF Build
    <3>2. QED
      BY <1>3, <1>7, <1>8, <2>1, <2>2, <3>1, ConcatenateRotations
  <2>3. CASE ~schrodinger
    <3>1. single' = Concatenate(ExpandMonomials(c, calls + 1), single)
      BY <2>3 DEF Build
    <3>2. QED
      BY <1>3, <1>7, <1>8, <2>1, <2>3, <3>1, ConcatenateRotations
  <2>4. QED
    BY <2>2, <2>3
<1>10. SingleTypeOK'
  BY <1>9, SingleTyped
<1>11. OrderInv'
  <2>1. SUFFICES ASSUME fails' = 0, NEW p \in Parts
                 PROVE  /\ operand'[p] = IF schrodinger' THEN folded' ELSE Reverse(folded')
                        /\ Rotations(graph'[p]) = Reverse(Rotations(single'))
    BY DEF OrderInv
  <2>2. /\ operand[p] = IF schrodinger THEN folded ELSE Reverse(folded)
        /\ Rotations(graph[p]) = Reverse(s)
    BY <1>1, <1>8, <2>1 DEF ReplayInv, OrderInv, Completes
  <2>3. Rotations(graph'[p]) = Reverse(Rotations(single'))
    <3>1. Reverse(s \o own) = Reverse(own) \o Reverse(s) /\ Reverse(own \o s) = Reverse(s) \o Reverse(own)
      BY ReverseConcat
    <3>2. CASE schrodinger
      BY <1>4, <1>9, <2>2, <3>1, <3>2
    <3>3. CASE ~schrodinger
      BY <1>4, <1>9, <2>2, <3>1, <3>3
    <3>4. QED
      BY <3>2, <3>3
  <2>4. QED
    BY <1>1, <1>2, <2>2, <2>3
<1>12. EqualLengthEqualLayers' /\ TermValuesSeeCompletedCalls'
  BY <1>1, <1>2, <1>4 DEF ReplayInv, EqualLengthEqualLayers, TermValuesSeeCompletedCalls,
                          TermValuesSeeEveryGate, Completes
<1>13. QED
  BY <1>5, <1>6, <1>10, <1>11, <1>12 DEF ReplayInv

\* A build that breaks off: partitions differ in a layer, but not if they have equally many.
LEMMA BuildFailsKeeps ==
  ASSUME ReplayInv, NEW c \in Circuits, BuildFails(c)
  PROVE  ReplayInv'
<1>1. Call /\ BreaksOff
      /\ UNCHANGED <<operand, absorbed, epoch, weights, nParams, functional, single, folded>>
  BY DEF BuildFails
<1>2. /\ \A p, q \in Parts : graph[p] = graph[q]
      /\ \A p \in Parts : graph[p] \in Seq(Layers)
      /\ calls \in Nat /\ calls' \in 0..MaxCalls /\ schrodinger' = schrodinger
  BY <1>1, CallFacts
<1>3. EpochInv' /\ epoch' \in [Parts -> 0..MaxCalls] /\ weights' \in [Parts -> 0..MaxCalls]
  BY <1>1, EpochKept
<1>4. fails' \in 0..MaxFails /\ OrderInv' /\ TermValuesSeeCompletedCalls'
  BY <1>1, Broken
<1>5. Len(ExpandMonomials(c, calls + 1)) \in Nat
  BY <1>2, OwnRotations
<1>6. PICK n \in 0..(Len(ExpandMonomials(c, calls + 1)) - 1), ahead \in SUBSET Parts :
        graph' = [p \in Parts |-> Grown(graph[p], c, IF p \in ahead THEN n + 1 ELSE n)]
  BY DEF BuildFails
<1>7. ASSUME NEW p \in Parts
      PROVE  /\ graph'[p] \in Seq(Layers)
             /\ Len(graph'[p]) = Len(graph[p]) + (IF p \in ahead THEN n + 1 ELSE n)
  <2>1. PICK k \in 0..Len(ExpandMonomials(c, calls + 1)) : k = IF p \in ahead THEN n + 1 ELSE n
    BY <1>5
  <2>2. nParams \in Nat
    BY DEF ReplayInv, SessionTypeOK
  <2>3. /\ Grown(graph[p], c, k) \in Seq(Layers)
        /\ Len(Grown(graph[p], c, k)) = Len(graph[p]) + k
    BY <1>2, <2>2, GrownType
  <2>4. QED
    BY <1>6, <2>1, <2>3
<1>8. graph' \in [Parts -> Seq(Layers)]
  BY <1>6, <1>7
<1>9. EqualLengthEqualLayers'
  <2>1. SUFFICES ASSUME NEW p \in Parts, NEW q \in Parts, Len(graph'[p]) = Len(graph'[q])
                 PROVE  graph'[p] = graph'[q]
    BY DEF EqualLengthEqualLayers
  <2>2. PICK l \in Nat : l = Len(graph[p]) /\ l = Len(graph[q])
    BY <1>2, LenProperties
  <2>3. (IF p \in ahead THEN n + 1 ELSE n) = (IF q \in ahead THEN n + 1 ELSE n)
    <3>1. PICK i \in Nat, j \in Nat : /\ i = IF p \in ahead THEN n + 1 ELSE n
                                      /\ j = IF q \in ahead THEN n + 1 ELSE n
      BY <1>5
    <3>2. Len(graph'[p]) = l + i /\ Len(graph'[q]) = l + j
      BY <1>7, <2>2, <3>1
    <3>3. i = j
      <4>1. l + i = l + j
        BY <2>1, <3>2
      <4>2. QED
        BY <4>1
    <3>4. QED
      BY <3>1, <3>3
  <2>4. graph[p] = graph[q]
    BY <1>2
  <2>5. QED
    BY <1>6, <2>3, <2>4
<1>10. SessionTypeOK'
  BY <1>1, <1>2, <1>3, <1>4, <1>8 DEF ReplayInv, SessionTypeOK
<1>11. SingleTypeOK'
  BY <1>1 DEF ReplayInv, SingleTypeOK
<1>12. QED
  BY <1>3, <1>4, <1>9, <1>10, <1>11 DEF ReplayInv

(* propagate *)

\* What a gate loop contracted, also when it was left early.
LEMMA ContractedType ==
  ASSUME ReplayInv, NEW c \in Circuits, NEW p \in Parts,
         NEW n \in 0..Len(ExpandMonomials(c, calls + 1))
  PROVE  Contracted(p, c, n) \in Seq(Rotation)
<1>1. calls \in Nat /\ operand[p] \in Seq(Rotation)
  BY DEF ReplayInv, SessionTypeOK, Rotation
<1>2. PICK own \in Seq(Rotation) : /\ own = Rotations(ExpandMonomials(c, calls + 1))
                                   /\ n \in 0..Len(own)
  BY <1>1, OwnRotations
<1>3. SubSeq(LoopOrder(own), 1, n) \in Seq(Rotation)
  BY <1>2, LoopOrderType
<1>4. operand[p] \o SubSeq(LoopOrder(own), 1, n) \in Seq(Rotation)
  BY <1>1, <1>3, ConcatProperties
<1>5. QED
  BY <1>2, <1>4 DEF Contracted

\* propagate: the operand grows at its end, the circuit on the side of the picture.
LEMMA PropagateKeeps ==
  ASSUME ReplayInv, NEW c \in Circuits, Propagate(c)
  PROVE  ReplayInv'
<1>1. Call /\ Completes /\ UNCHANGED <<graph, epoch, weights, nParams, functional, single>>
  BY DEF Propagate
<1>2. calls \in Nat /\ calls' \in 0..MaxCalls /\ schrodinger' = schrodinger /\ FirstPart \in Parts
  BY <1>1, CallFacts
<1>3. EpochInv' /\ epoch' \in [Parts -> 0..MaxCalls] /\ weights' \in [Parts -> 0..MaxCalls]
  BY <1>1, EpochKept
<1>4. PICK own \in Seq(Rotation) : /\ own = Rotations(ExpandMonomials(c, calls + 1))
                                   /\ Len(own) = Len(ExpandMonomials(c, calls + 1)) /\ Len(own) \in Nat
  BY <1>2, OwnRotations
<1>5. \A p \in Parts : operand'[p] = operand[p] \o LoopOrder(own)
  <2>1. SubSeq(LoopOrder(own), 1, Len(own)) = LoopOrder(own)
    BY LoopOrderType
  <2>2. QED
    BY <1>4, <2>1 DEF Propagate, Contracted
<1>6. operand' \in [Parts -> Seq(Seq(Nat))]
  <2>1. \A p \in Parts : Contracted(p, c, Len(own)) \in Seq(Seq(Nat))
    BY <1>4, ContractedType DEF Rotation
  <2>2. QED
    BY <1>4, <2>1 DEF Propagate
<1>7. folded \in Seq(Rotation)
  BY DEF ReplayInv, SessionTypeOK, Rotation
<1>8. folded' = IF schrodinger THEN folded \o own ELSE own \o folded
  BY <1>4 DEF Propagate, Fold
<1>9. folded' \in Seq(Seq(Nat))
  <2>1. folded \o own \in Seq(Rotation) /\ own \o folded \in Seq(Rotation)
    BY <1>7, ConcatProperties
  <2>2. QED
    BY <1>8, <2>1 DEF Rotation
<1>10. absorbed' = [p \in Parts |-> absorbed[p] \/ ~schrodinger]
  BY DEF Propagate, Absorbed
<1>11. SessionTypeOK'
  <2>1. absorbed' \in [Parts -> BOOLEAN]
    BY <1>10
  <2>2. QED
    BY <1>1, <1>2, <1>3, <1>6, <1>9, <2>1 DEF ReplayInv, SessionTypeOK, Completes
<1>12. OrderInv'
  <2>1. SUFFICES ASSUME fails' = 0, NEW p \in Parts
                 PROVE  /\ operand'[p] = IF schrodinger' THEN folded' ELSE Reverse(folded')
                        /\ Rotations(graph'[p]) = Reverse(Rotations(single'))
    BY DEF OrderInv
  <2>2. /\ operand[p] = IF schrodinger THEN folded ELSE Reverse(folded)
        /\ Rotations(graph[p]) = Reverse(Rotations(single))
    BY <1>1, <2>1 DEF ReplayInv, OrderInv, Completes
  <2>3. Reverse(own \o folded) = Reverse(folded) \o Reverse(own)
    BY <1>7, ReverseConcat
  <2>4. operand'[p] = IF schrodinger THEN folded' ELSE Reverse(folded')
    BY <1>5, <1>8, <2>2, <2>3 DEF LoopOrder
  <2>5. QED
    BY <1>1, <1>2, <2>2, <2>4
<1>13. TermValuesSeeCompletedCalls'
  BY <1>2, <1>10 DEF TermValuesSeeCompletedCalls, TermValuesSeeEveryGate
<1>14. SingleTypeOK' /\ EqualLengthEqualLayers'
  BY <1>1 DEF ReplayInv, SingleTypeOK, EqualLengthEqualLayers
<1>15. QED
  BY <1>3, <1>11, <1>12, <1>13, <1>14 DEF ReplayInv

\* propagate that breaks off leaves rotations behind, and nothing ill-formed.
LEMMA PropagateFailsKeeps ==
  ASSUME ReplayInv, NEW c \in Circuits, PropagateFails(c)
  PROVE  ReplayInv'
<1>1. Call /\ BreaksOff /\ UNCHANGED <<graph, epoch, weights, nParams, functional, single, folded>>
  BY DEF PropagateFails, history
<1>2. calls \in Nat /\ calls' \in 0..MaxCalls /\ schrodinger' = schrodinger
  BY <1>1, CallFacts
<1>3. EpochInv' /\ epoch' \in [Parts -> 0..MaxCalls] /\ weights' \in [Parts -> 0..MaxCalls]
  BY <1>1, EpochKept
<1>4. fails' \in 0..MaxFails /\ OrderInv' /\ TermValuesSeeCompletedCalls'
  BY <1>1, Broken
<1>5. Len(ExpandMonomials(c, calls + 1)) \in Nat
  BY <1>2, OwnRotations
<1>6. PICK n \in 0..(Len(ExpandMonomials(c, calls + 1)) - 1), ahead \in SUBSET Parts :
        /\ operand' = [p \in Parts |-> Contracted(p, c, IF p \in ahead THEN n + 1 ELSE n)]
        /\ absorbed' = [p \in Parts |->
              Absorbed(p, p \in ahead /\ n + 1 = Len(ExpandMonomials(c, calls + 1)))]
  BY DEF PropagateFails
<1>7. operand' \in [Parts -> Seq(Seq(Nat))]
  <2>1. ASSUME NEW p \in Parts
        PROVE  Contracted(p, c, IF p \in ahead THEN n + 1 ELSE n) \in Seq(Seq(Nat))
    <3>1. PICK k \in 0..Len(ExpandMonomials(c, calls + 1)) : k = IF p \in ahead THEN n + 1 ELSE n
      BY <1>5
    <3>2. Contracted(p, c, k) \in Seq(Rotation)
      BY ContractedType
    <3>3. QED
      BY <3>1, <3>2 DEF Rotation
  <2>2. QED
    BY <1>6, <2>1
<1>8. absorbed' \in [Parts -> BOOLEAN]
  <2>1. \A p \in Parts : \A did : Absorbed(p, did) \in BOOLEAN
    BY DEF Absorbed
  <2>2. QED
    BY <1>6, <2>1
<1>9. SessionTypeOK'
  BY <1>1, <1>2, <1>3, <1>4, <1>7, <1>8 DEF ReplayInv, SessionTypeOK
<1>10. SingleTypeOK' /\ EqualLengthEqualLayers'
  BY <1>1 DEF ReplayInv, SingleTypeOK, EqualLengthEqualLayers
<1>11. QED
  BY <1>3, <1>4, <1>9, <1>10 DEF ReplayInv

(* contract_partially *)

\* What a partition has contracted and then replays, in order, is what the session
\* contracted and stores, in the picture's order.
LEMMA ReplayIs ==
  ASSUME ReplayInv, fails = 0, NEW p \in Parts
  PROVE  Replayed(p) = IF schrodinger THEN folded \o Rotations(single)
                                      ELSE Reverse(Rotations(single) \o folded)
<1>1. PICK s \in Seq(Rotation) : s = Rotations(single)
  <2>1. PICK A : single \in Seq(LayerOf(A))
    BY SingleIs
  <2>2. QED
    BY <2>1, RotationsType
<1>2. PICK g \in Seq(LayerOf(Nat)) : g = graph[p]
  BY LayersAre DEF ReplayInv, SessionTypeOK
<1>3. folded \in Seq(Rotation)
  BY DEF ReplayInv, SessionTypeOK, Rotation
<1>4. /\ operand[p] = IF schrodinger THEN folded ELSE Reverse(folded)
      /\ Rotations(g) = Reverse(s)
  BY <1>1, <1>2 DEF ReplayInv, OrderInv
<1>5. CASE schrodinger
  <2>1. Rotations(Reverse(g)) = Reverse(Reverse(s))
    BY <1>4, RotationsReverse
  <2>2. Reverse(Reverse(s)) = s
    BY ReverseTwice
  <2>3. QED
    BY <1>1, <1>2, <1>4, <1>5, <2>1, <2>2 DEF Replayed, Sliced
<1>6. CASE ~schrodinger
  <2>1. Reverse(s \o folded) = Reverse(folded) \o Reverse(s)
    BY <1>3, ReverseConcat
  <2>2. QED
    BY <1>1, <1>2, <1>4, <1>6, <2>1 DEF Replayed, Sliced
<1>7. QED
  BY <1>5, <1>6

\* The replay is of well-formed rotations.
LEMMA ReplayedType ==
  ASSUME ReplayInv, NEW p \in Parts
  PROVE  Replayed(p) \in Seq(Rotation)
<1>1. operand[p] \in Seq(Rotation)
  BY DEF ReplayInv, SessionTypeOK, Rotation
<1>2. PICK g \in Seq(LayerOf(Nat)) : g = Sliced(graph[p])
  <2>1. PICK h \in Seq(LayerOf(Nat)) : h = graph[p]
    BY LayersAre DEF ReplayInv, SessionTypeOK
  <2>2. Reverse(h) \in Seq(LayerOf(Nat))
    BY ReverseProperties
  <2>3. QED
    BY <2>1, <2>2 DEF Sliced
<1>3. PICK r \in Seq(Rotation) : r = Rotations(g)
  BY RotationsType
<1>4. operand[p] \o r \in Seq(Rotation)
  BY <1>1, ConcatProperties
<1>5. QED
  BY <1>2, <1>3, <1>4 DEF Replayed

\* The graph is empty afterwards, and so is the equivalent circuit.
LEMMA Emptied ==
  ASSUME ReplayInv, graph' = [p \in Parts |-> <<>>], single' = <<>>
  PROVE  /\ graph' \in [Parts -> Seq(Layers)] /\ SingleTypeOK' /\ EqualLengthEqualLayers'
         /\ \A p \in Parts : Rotations(graph'[p]) = Reverse(Rotations(single'))
<1>1. <<>> \in Seq(Layers) /\ <<>> \in Seq(LayerOf(Nat))
  BY EmptySeq
<1>2. single' \in Seq(LayerOf(Nat))
  BY <1>1
<1>3. SingleTypeOK'
  BY <1>2, SingleTyped
<1>4. graph' \in [Parts -> Seq(Layers)]
  BY <1>1
<1>5. \A p \in Parts : Rotations(graph'[p]) = Reverse(Rotations(single'))
  BY RotationsEmpty, ReverseEmpty
<1>6. EqualLengthEqualLayers'
  BY DEF EqualLengthEqualLayers
<1>7. QED
  BY <1>3, <1>4, <1>5, <1>6

\* contract_partially moves the stored circuit to the contracted one.
LEMMA ContractKeeps ==
  ASSUME ReplayInv, NEW have \in BOOLEAN, Contract(have)
  PROVE  ReplayInv'
<1>1. Call /\ Completes /\ UNCHANGED <<epoch, weights, functional>>
  BY DEF Contract
<1>2. /\ calls' \in 0..MaxCalls /\ schrodinger' = schrodinger /\ FirstPart \in Parts
      /\ \A p, q \in Parts : graph[p] = graph[q]
  BY <1>1, CallFacts
<1>3. EpochInv' /\ epoch' \in [Parts -> 0..MaxCalls] /\ weights' \in [Parts -> 0..MaxCalls]
  BY <1>1, EpochKept
<1>4. /\ operand' = [p \in Parts |-> Replayed(p)]
      /\ absorbed' = [p \in Parts |-> Absorbed(p, have)]
      /\ graph' = [p \in Parts |-> <<>>] /\ single' = <<>>
      /\ folded' = IF schrodinger THEN folded \o Rotations(single) ELSE Rotations(single) \o folded
  BY DEF Contract, Fold
<1>5. /\ graph' \in [Parts -> Seq(Layers)] /\ SingleTypeOK' /\ EqualLengthEqualLayers'
      /\ \A p \in Parts : Rotations(graph'[p]) = Reverse(Rotations(single'))
  BY <1>4, Emptied
<1>6. folded' \in Seq(Seq(Nat))
  <2>1. PICK s \in Seq(Rotation) : s = Rotations(single)
    BY SingleIs, RotationsType
  <2>2. folded \in Seq(Rotation)
    BY DEF ReplayInv, SessionTypeOK, Rotation
  <2>3. folded \o s \in Seq(Rotation) /\ s \o folded \in Seq(Rotation)
    BY <2>2, ConcatProperties
  <2>4. QED
    BY <1>4, <2>1, <2>3 DEF Rotation
<1>7. operand' \in [Parts -> Seq(Seq(Nat))] /\ absorbed' \in [Parts -> BOOLEAN]
  <2>1. \A p \in Parts : Replayed(p) \in Seq(Seq(Nat))
    BY ReplayedType DEF Rotation
  <2>2. \A p \in Parts : Absorbed(p, have) \in BOOLEAN
    BY DEF Absorbed
  <2>3. QED
    BY <1>4, <2>1, <2>2
<1>8. nParams' \in Nat
  <2>1. nParams' = 0
    BY <1>2, <1>4 DEF Contract, NumParams, NParameters
  <2>2. QED
    BY <2>1
<1>9. SessionTypeOK'
  BY <1>1, <1>2, <1>3, <1>5, <1>6, <1>7, <1>8 DEF ReplayInv, SessionTypeOK, Completes
<1>10. OrderInv'
  <2>1. SUFFICES ASSUME fails' = 0, NEW p \in Parts
                 PROVE  operand'[p] = IF schrodinger' THEN folded' ELSE Reverse(folded')
    BY <1>5 DEF OrderInv
  <2>2. Replayed(p) = IF schrodinger THEN folded \o Rotations(single)
                                     ELSE Reverse(Rotations(single) \o folded)
    BY <1>1, <2>1, ReplayIs DEF Completes
  <2>3. QED
    BY <1>2, <1>4, <2>2
<1>11. TermValuesSeeCompletedCalls'
  <2>1. SUFFICES ASSUME fails' = 0, ~schrodinger', ~absorbed'[FirstPart], NEW p \in Parts
                 PROVE  operand'[p] = <<>>
    BY DEF TermValuesSeeCompletedCalls, TermValuesSeeEveryGate
  <2>2. ~absorbed[FirstPart] /\ ~have
    BY <1>2, <1>4, <2>1 DEF Absorbed
  <2>3. graph[p] = <<>>
    BY <1>2, <2>2 DEF Contract
  <2>4. operand[p] = <<>>
    BY <1>1, <1>2, <2>1, <2>2 DEF ReplayInv, TermValuesSeeCompletedCalls, TermValuesSeeEveryGate,
                                  Completes
  <2>5. Rotations(Sliced(graph[p])) = <<>>
    BY <2>3, RotationsEmpty, ReverseEmpty DEF Sliced
  <2>6. <<>> \o <<>> = <<>>
    OBVIOUS
  <2>7. QED
    BY <1>4, <2>4, <2>5, <2>6 DEF Replayed
<1>12. QED
  BY <1>3, <1>5, <1>9, <1>10, <1>11 DEF ReplayInv

\* contract_partially that breaks off leaves empty graphs.
LEMMA ContractFailsKeeps ==
  ASSUME ReplayInv, ContractFails
  PROVE  ReplayInv'
<1>1. Call /\ BreaksOff /\ UNCHANGED <<epoch, weights, nParams, functional, folded>>
      /\ graph' = [p \in Parts |-> <<>>] /\ single' = <<>>
  BY DEF ContractFails
<1>2. calls' \in 0..MaxCalls /\ schrodinger' = schrodinger
  BY <1>1, CallFacts
<1>3. EpochInv' /\ epoch' \in [Parts -> 0..MaxCalls] /\ weights' \in [Parts -> 0..MaxCalls]
  BY <1>1, EpochKept
<1>4. fails' \in 0..MaxFails /\ OrderInv' /\ TermValuesSeeCompletedCalls'
  BY <1>1, Broken
<1>5. graph' \in [Parts -> Seq(Layers)] /\ SingleTypeOK' /\ EqualLengthEqualLayers'
  BY <1>1, Emptied
<1>6. operand' \in [Parts -> Seq(Seq(Nat))] /\ absorbed' \in [Parts -> BOOLEAN]
  <2>1. \A p \in Parts : Replayed(p) \in Seq(Seq(Nat)) /\ operand[p] \in Seq(Seq(Nat))
    BY ReplayedType DEF Rotation, ReplayInv, SessionTypeOK
  <2>2. \A p \in Parts : \A did : Absorbed(p, did) \in BOOLEAN
    BY DEF Absorbed
  <2>3. QED
    BY <2>1, <2>2 DEF ContractFails
<1>7. SessionTypeOK'
  BY <1>1, <1>2, <1>3, <1>4, <1>5, <1>6 DEF ReplayInv, SessionTypeOK
<1>8. QED
  BY <1>3, <1>4, <1>5, <1>7 DEF ReplayInv

(* the parameter_mapping setter, update_initial_operator, functional *)

\* The parameter_mapping setter changes angles only.
LEMMA RewireKeeps ==
  ASSUME ReplayInv, NEW n, Rewire(n)
  PROVE  ReplayInv'
<1>1. Call /\ Completes /\ UNCHANGED <<operand, absorbed, epoch, weights, functional, folded>>
  BY DEF Rewire
<1>2. /\ calls' \in 0..MaxCalls /\ schrodinger' = schrodinger /\ FirstPart \in Parts
      /\ \A p, q \in Parts : graph[p] = graph[q]
      /\ \A p \in Parts : graph[p] \in Seq(Layers)
  BY <1>1, CallFacts
<1>3. EpochInv' /\ epoch' \in [Parts -> 0..MaxCalls] /\ weights' \in [Parts -> 0..MaxCalls]
  BY <1>1, EpochKept
<1>4. PICK g \in Seq(Layers) : \A p \in Parts : graph[p] = g
  BY <1>2
<1>5. PICK mapping \in Rewirings(n) :
        /\ graph' = [p \in Parts |-> SetParameterMapping(graph[p], mapping)]
        /\ nParams' = Max(Range(mapping)) + 1
        /\ single' = [i \in DOMAIN single |-> [single[i] EXCEPT !.angle =
             IF n = Len(single) THEN mapping[i] ELSE mapping[Authored(single[i].of) + 1]]]
  BY DEF Rewire
<1>6. g # <<>> /\ (n = Len(g) \/ n = NGates(g))
  BY <1>2, <1>4 DEF Rewire
<1>7. n \in Nat \ {0}
  <2>1. PICK l \in Nat : l = Len(g) /\ DOMAIN g = 1..l /\ l # 0
    BY <1>6, LenProperties, EmptySeq
  <2>2. PICK k \in Nat : k = NGates(g) /\ \A i \in DOMAIN g : g[i].gate + 1 \in 1..k
    BY NGatesType
  <2>3. k # 0
    <3>1. 1 \in DOMAIN g
      BY <2>1
    <3>2. QED
      BY <2>2, <3>1
  <2>4. QED
    BY <1>6, <2>1, <2>2, <2>3
<1>8. mapping \in Seq(Nat) /\ Len(mapping) = n /\ nParams' \in Nat
  BY <1>5, <1>7, RewiringsType
<1>9. PICK h \in Seq(Layers) : /\ h = SetParameterMapping(g, mapping)
                               /\ Rotations(h) = Rotations(g)
  <2>1. Len(mapping) = Len(g) \/ Len(mapping) = NGates(g)
    BY <1>6, <1>8
  <2>2. QED
    BY <1>8, <2>1, SetParameterMappingType
<1>10. \A p \in Parts : graph'[p] = h
  BY <1>4, <1>5, <1>9
<1>11. graph' \in [Parts -> Seq(Layers)] /\ EqualLengthEqualLayers'
  BY <1>5, <1>10 DEF EqualLengthEqualLayers
<1>12. PICK A : single \in Seq(LayerOf(A))
  BY SingleIs
<1>13. SingleTypeOK' /\ Rotations(single') = Rotations(single)
  <2>1. PICK a : a = [i \in DOMAIN single |->
          IF n = Len(single) THEN mapping[i] ELSE mapping[Authored(single[i].of) + 1]]
    OBVIOUS
  <2>2. PICK C : C = {a[i] : i \in DOMAIN single}
    OBVIOUS
  <2>3. \A i \in DOMAIN single : single'[i] \in LayerOf(C) /\ single'[i].of = single[i].of
    <3>1. TAKE i \in DOMAIN single
    <3>2. PICK q \in LayerOf(A), b \in C : q = single[i] /\ b = a[i]
      BY <1>12, <2>2, ElementOfSeq, LenProperties
    <3>3. single'[i] = [q EXCEPT !.angle = b]
      BY <1>5, <2>1, <3>2
    <3>4. [q EXCEPT !.angle = b] \in LayerOf(C) /\ [q EXCEPT !.angle = b].of = q.of
      BY Relabel
    <3>5. QED
      BY <3>2, <3>3, <3>4
  <2>4. single' \in [DOMAIN single -> LayerOf(C)]
    BY <1>5, <2>3
  <2>5. single' \in Seq(LayerOf(C)) /\ Rotations(single') = Rotations(single)
    BY <1>12, <2>3, <2>4, RelabelAll
  <2>6. QED
    BY <2>5, SingleTyped
<1>14. OrderInv'
  <2>1. SUFFICES ASSUME fails' = 0, NEW p \in Parts
                 PROVE  /\ operand'[p] = IF schrodinger' THEN folded' ELSE Reverse(folded')
                        /\ Rotations(graph'[p]) = Reverse(Rotations(single'))
    BY DEF OrderInv
  <2>2. /\ operand[p] = IF schrodinger THEN folded ELSE Reverse(folded)
        /\ Rotations(graph[p]) = Reverse(Rotations(single))
    BY <1>1, <2>1 DEF ReplayInv, OrderInv, Completes
  <2>3. QED
    BY <1>1, <1>2, <1>4, <1>9, <1>10, <1>13, <2>2
<1>15. SessionTypeOK'
  BY <1>1, <1>2, <1>3, <1>8, <1>11 DEF ReplayInv, SessionTypeOK, Completes
<1>16. TermValuesSeeCompletedCalls'
  BY <1>1, <1>2 DEF ReplayInv, TermValuesSeeCompletedCalls, TermValuesSeeEveryGate, Completes
<1>17. QED
  BY <1>3, <1>11, <1>13, <1>14, <1>15, <1>16 DEF ReplayInv

\* update_initial_operator: every epoch goes on, so no functional is of this epoch.
LEMMA ReweightKeeps ==
  ASSUME ReplayInv, NEW owner \in SUBSET Parts, Reweight(owner)
  PROVE  ReplayInv'
<1>1. Call /\ Completes /\ UNCHANGED <<graph, operand, absorbed, nParams, functional, single, folded>>
  BY DEF Reweight
<1>2. calls \in Nat /\ calls' \in 0..MaxCalls /\ schrodinger' = schrodinger /\ calls' = calls + 1
  BY <1>1, CallFacts
<1>3. /\ epoch' = [p \in Parts |-> epoch[p] + 1]
      /\ weights' = [p \in Parts |-> IF p \in owner THEN weights[p] ELSE calls + 1]
  BY DEF Reweight, BumpEpoch
<1>4. \A p \in Parts : epoch[p] \in Nat /\ weights[p] \in Nat /\ epoch[p] <= calls /\ weights[p] <= calls
  BY DEF ReplayInv, SessionTypeOK, EpochInv
<1>5. ASSUME NEW p \in Parts
      PROVE  /\ epoch'[p] = epoch[p] + 1 /\ epoch'[p] \in 0..MaxCalls /\ epoch'[p] <= calls'
             /\ weights'[p] \in 0..MaxCalls /\ weights'[p] <= calls'
  <2>1. PICK e \in Nat, w \in Nat : e = epoch[p] /\ w = weights[p] /\ e <= calls /\ w <= calls
    BY <1>4
  <2>2. epoch'[p] = e + 1 /\ weights'[p] = IF p \in owner THEN w ELSE calls + 1
    BY <1>3, <2>1
  <2>3. QED
    BY SessionAssumption, <1>2, <2>1, <2>2
<1>6. epoch' \in [Parts -> 0..MaxCalls] /\ weights' \in [Parts -> 0..MaxCalls]
  BY <1>3, <1>5
<1>7. ASSUME functional' # None, NEW p \in Parts
      PROVE  /\ functional'.epoch[p] \in 0..epoch'[p]
             /\ functional'.epoch[p] # epoch'[p]
  <2>1. functional.epoch[p] \in 0..epoch[p] /\ functional' = functional
    BY <1>1, <1>7 DEF ReplayInv, EpochInv
  <2>2. QED
    BY <1>4, <1>5, <2>1
<1>8. EpochInv'
  BY <1>5, <1>7 DEF EpochInv
<1>9. SessionTypeOK'
  BY <1>1, <1>2, <1>6 DEF ReplayInv, SessionTypeOK, Completes
<1>10. SingleTypeOK' /\ EqualLengthEqualLayers' /\ OrderInv' /\ TermValuesSeeCompletedCalls'
  BY <1>1, <1>2 DEF ReplayInv, SingleTypeOK, EqualLengthEqualLayers, OrderInv,
                    TermValuesSeeCompletedCalls, TermValuesSeeEveryGate, Completes
<1>11. QED
  BY <1>8, <1>9, <1>10 DEF ReplayInv

\* A functional is of the epoch and the weights it was made from.
LEMMA MakeFunctionalKeeps ==
  ASSUME ReplayInv, NEW pared, MakeFunctional(pared)
  PROVE  ReplayInv'
<1>1. Call /\ Completes /\ UNCHANGED <<graph, operand, absorbed, epoch, weights, nParams, single, folded>>
  BY DEF MakeFunctional, engine, history
<1>2. calls \in Nat /\ calls' \in 0..MaxCalls /\ schrodinger' = schrodinger /\ calls' = calls + 1
  BY <1>1, CallFacts
<1>3. functional'.epoch = epoch /\ functional'.weights = weights
  BY DEF MakeFunctional
<1>4. \A p \in Parts : epoch[p] \in Nat /\ weights[p] \in Nat /\ epoch[p] <= calls /\ weights[p] <= calls
  BY DEF ReplayInv, SessionTypeOK, EpochInv
<1>5. EpochInv'
  <2>1. \A p \in Parts : epoch'[p] <= calls' /\ weights'[p] <= calls'
    BY <1>1, <1>2, <1>4
  <2>2. \A p \in Parts : /\ functional'.epoch[p] \in 0..epoch'[p]
                         /\ functional'.weights[p] = weights'[p]
    BY <1>1, <1>3, <1>4
  <2>3. QED
    BY <2>1, <2>2 DEF EpochInv
<1>6. SessionTypeOK'
  BY <1>1, <1>2 DEF ReplayInv, SessionTypeOK, Completes
<1>7. SingleTypeOK' /\ EqualLengthEqualLayers' /\ OrderInv' /\ TermValuesSeeCompletedCalls'
  BY <1>1, <1>2 DEF ReplayInv, SingleTypeOK, EqualLengthEqualLayers, OrderInv,
                    TermValuesSeeCompletedCalls, TermValuesSeeEveryGate, Completes
<1>8. QED
  BY <1>5, <1>6, <1>7 DEF ReplayInv

------------------------------------------------------------------------------
(***************************************************************************)
(* The theorems                                                            *)
(***************************************************************************)

\* A new propagator.
LEMMA InitReplayInv == Init => ReplayInv
<1>1. SUFFICES ASSUME Init PROVE ReplayInv
  OBVIOUS
<1>2. <<>> \in Seq(Layers) /\ <<>> \in Seq(Seq(Nat)) /\ <<>> \in Seq(LayerOf(Nat))
  BY EmptySeq
<1>3. SessionTypeOK
  BY <1>1, <1>2, SessionAssumption DEF Init, SessionTypeOK
<1>4. SingleTypeOK
  BY <1>1, <1>2, OwnAngles DEF Init, SingleTypeOK, LayerOf, Rotation
<1>5. EqualLengthEqualLayers
  BY <1>1 DEF Init, EqualLengthEqualLayers
<1>6. OrderInv
  BY <1>1, RotationsEmpty, ReverseEmpty DEF Init, OrderInv
<1>7. EpochInv
  BY <1>1 DEF Init, EpochInv
<1>8. TermValuesSeeCompletedCalls
  BY <1>1 DEF Init, TermValuesSeeCompletedCalls, TermValuesSeeEveryGate
<1>9. QED
  BY <1>3, <1>4, <1>5, <1>6, <1>7, <1>8 DEF ReplayInv

\* Nothing else changes the invariant.
LEMMA StutterReplayInv ==
  ASSUME ReplayInv, UNCHANGED vars
  PROVE  ReplayInv'
<1>1. UNCHANGED <<schrodinger, graph, operand, absorbed, epoch, weights, nParams, functional,
                  single, folded, calls, fails>>
  BY DEF vars, engine, history
<1>2. SessionTypeOK' /\ SingleTypeOK' /\ EqualLengthEqualLayers'
  BY <1>1 DEF ReplayInv, SessionTypeOK, SingleTypeOK, EqualLengthEqualLayers
<1>3. OrderInv' /\ EpochInv' /\ TermValuesSeeCompletedCalls'
  BY <1>1 DEF ReplayInv, OrderInv, EpochInv, TermValuesSeeCompletedCalls, TermValuesSeeEveryGate
<1>4. QED
  BY <1>2, <1>3 DEF ReplayInv

\* The session's invariant, for any circuits and any number of partitions: whatever
\* the calls and failures, every partition keeps well-formed layers, partitions with
\* equally many layers have the same ones, and until a call fails the operand and
\* the graph of each are the circuits contracted and stored.
THEOREM ReplayInductive == Spec => []ReplayInv
<1>1. Init => ReplayInv
  BY InitReplayInv
<1>2. ReplayInv /\ [Next]_vars => ReplayInv'
  <2>1. SUFFICES ASSUME ReplayInv, [Next]_vars PROVE ReplayInv'
    OBVIOUS
  <2>2. CASE \E c \in Circuits : Build(c)
    BY <2>1, <2>2, BuildKeeps
  <2>3. CASE \E c \in Circuits : BuildFails(c)
    BY <2>1, <2>3, BuildFailsKeeps
  <2>4. CASE \E c \in Circuits : Propagate(c)
    BY <2>1, <2>4, PropagateKeeps
  <2>5. CASE \E c \in Circuits : PropagateFails(c)
    BY <2>1, <2>5, PropagateFailsKeeps
  <2>6. CASE \E have \in BOOLEAN : Contract(have)
    BY <2>1, <2>6, ContractKeeps
  <2>7. CASE ContractFails
    BY <2>1, <2>7, ContractFailsKeeps
  <2>8. CASE \E n \in {Len(graph[FirstPart]), NGates(graph[FirstPart])} : Rewire(n)
    BY <2>1, <2>8, RewireKeeps
  <2>9. CASE \E owner \in SUBSET Parts : Reweight(owner)
    BY <2>1, <2>9, ReweightKeeps
  <2>10. CASE \E pared \in Pared : MakeFunctional(pared)
    BY <2>1, <2>10, MakeFunctionalKeeps
  <2>11. CASE UNCHANGED vars
    BY <2>1, <2>11, StutterReplayInv
  <2>12. QED
    BY <2>1, <2>2, <2>3, <2>4, <2>5, <2>6, <2>7, <2>8, <2>9, <2>10, <2>11 DEF Next
<1>3. QED
  BY <1>1, <1>2, PTL DEF Spec

\* run_gate_loop_, append_layer and contract_partially together: as long as no call
\* failed, the gates contracted into the operand followed by those of the graph, in
\* the order in which they are replayed, are the one circuit the calls add up to:
\* a + b read forwards in Schroedinger, b + a read backwards in Heisenberg.
THEOREM ReplayOrder == Spec => []ReplaysTheCircuit
<1>1. ReplayInv => ReplaysTheCircuit
  BY ReplayIs DEF ReplaysTheCircuit
<1>2. QED
  BY <1>1, ReplayInductive, PTL

\* heisenberg_gates_absorbed_: as long as no call failed, term_expectation_values
\* answers only for an operator into which no gate was contracted.
THEOREM TermValues == Spec => []TermValuesSeeCompletedCalls
<1>1. ReplayInv => TermValuesSeeCompletedCalls
  BY DEF ReplayInv
<1>2. QED
  BY <1>1, ReplayInductive, PTL

\* initial_operator_epoch_: a functional that still answers has the weights that the
\* operator has on every partition, also after a re-weight that failed on some.
THEOREM FunctionalWeights == Spec => []ReweightInvalidates
<1>1. ReplayInv => ReweightInvalidates
  BY DEF ReplayInv, EpochInv, ReweightInvalidates, Answers
<1>2. QED
  BY <1>1, ReplayInductive, PTL

(***************************************************************************)
(* The number of parameters and of gates                                   *)
(***************************************************************************)

\* The number of parameters is one more than the largest angle.
LEMMA LargestAngle ==
  ASSUME NEW n \in Nat \ {0}, NEW c, DOMAIN c = 1..n, c # <<>>, \A i \in 1..n : c[i].angle \in Nat
  PROVE  /\ NParameters(c) \in Nat \ {0}
         /\ \A i \in 1..n : c[i].angle < NParameters(c)
         /\ \E i \in 1..n : c[i].angle + 1 = NParameters(c)
<1>1. PICK f : f = [i \in 1..n |-> c[i].angle]
  OBVIOUS
<1>2. \A i \in 1..n : f[i] \in Nat /\ f[i] = c[i].angle
  BY <1>1
<1>3. {c[g].angle : g \in DOMAIN c} = {f[i] : i \in 1..n}
  BY <1>2
<1>4. PICK top \in Nat : /\ top = Max({f[i] : i \in 1..n})
                         /\ \E i \in 1..n : top = f[i]
                         /\ \A i \in 1..n : f[i] <= top
  BY <1>2, MaxOfMembers
<1>5. NParameters(c) = top + 1
  BY <1>3, <1>4 DEF NParameters
<1>6. \A i \in 1..n : c[i].angle < top + 1
  BY <1>2, <1>4
<1>7. \E i \in 1..n : c[i].angle + 1 = top + 1
  BY <1>2, <1>4
<1>8. QED
  BY <1>5, <1>6, <1>7

\* A bound that some angle reaches is that number.
LEMMA NParametersIs ==
  ASSUME NEW n \in Nat \ {0}, NEW c, DOMAIN c = 1..n, c # <<>>, \A i \in 1..n : c[i].angle \in Nat,
         NEW top \in Nat, \A i \in 1..n : c[i].angle < top, \E i \in 1..n : c[i].angle + 1 = top
  PROVE  NParameters(c) = top
<1>1. PICK m \in Nat : /\ m = NParameters(c)
                       /\ \A i \in 1..n : c[i].angle < m
                       /\ \E i \in 1..n : c[i].angle + 1 = m
  BY LargestAngle
<1>2. PICK i \in 1..n : c[i].angle + 1 = m
  BY <1>1
<1>3. PICK j \in 1..n : c[j].angle + 1 = top
  OBVIOUS
<1>4. c[i].angle \in Nat /\ c[j].angle \in Nat /\ c[i].angle < top /\ c[j].angle < m
  BY <1>1
<1>5. m = top
  BY <1>2, <1>3, <1>4
<1>6. QED
  BY <1>1, <1>5

\* The number of gates is the bound on the indices that some layer reaches.
LEMMA NGatesIs ==
  ASSUME NEW g \in Seq(Layers), NEW top \in Nat, \A l \in DOMAIN g : g[l].gate < top,
         NEW l \in DOMAIN g, g[l].gate + 1 = top
  PROVE  NGates(g) = top
<1>1. PICK n \in Nat : n = Len(g) /\ DOMAIN g = 1..n
  BY LenProperties
<1>2. \A i \in 1..n : g[i].gate \in Nat
  <2>1. \A i \in 1..n : g[i] \in Layers
    BY <1>1, ElementOfSeq
  <2>2. QED
    BY <2>1 DEF Layers
<1>3. PICK f : f = [i \in 1..n |-> g[i].gate]
  OBVIOUS
<1>4. \A i \in 1..n : f[i] \in Nat /\ f[i] = g[i].gate
  BY <1>2, <1>3
<1>5. {g[i].gate : i \in DOMAIN g} = {f[i] : i \in 1..n}
  BY <1>1, <1>4
<1>6. n \in Nat \ {0} /\ g # <<>>
  BY <1>1
<1>7. PICK m \in Nat : /\ m = Max({f[i] : i \in 1..n})
                       /\ \E i \in 1..n : m = f[i]
                       /\ \A i \in 1..n : f[i] <= m
  BY <1>4, <1>6, MaxOfMembers
<1>8. NGates(g) = m + 1
  BY <1>5, <1>6, <1>7 DEF NGates
<1>9. PICK i \in 1..n : m = f[i]
  BY <1>7
<1>10. f[i] < top /\ f[l] + 1 = top /\ f[l] <= m /\ f[l] \in Nat
  BY <1>1, <1>4, <1>7
<1>11. QED
  BY <1>8, <1>9, <1>10

\* Without layers there are no gates.
LEMMA NoGates == NGates(<<>>) = 0 /\ NParameters(<<>>) = 0
  BY DEF NGates, NParameters

------------------------------------------------------------------------------
(***************************************************************************)
(* The monomials of a circuit                                              *)
(***************************************************************************)

\* A concatenation has every member of its blocks.
LEMMA FlattenHolds ==
  ASSUME NEW S, NEW seqs \in Seq(Seq(S))
  PROVE  \A i \in 1..Len(seqs) : \A j \in 1..Len(seqs[i]) :
           \E k \in 1..Len(FlattenSeq(seqs)) : FlattenSeq(seqs)[k] = seqs[i][j]
<1>0. PICK n \in Nat : n = Len(seqs) /\ seqs \in [1..n -> Seq(S)]
  BY SeqDef, LenProperties
<1> SUFFICES ASSUME NEW i \in 1..n, NEW j \in 1..Len(seqs[i])
             PROVE  \E k \in 1..Len(FlattenSeq(seqs)) : FlattenSeq(seqs)[k] = seqs[i][j]
  BY <1>0
<1>1. PICK w : w = [q \in 0..(n - 1) |-> Len(seqs[q + 1])]
  OBVIOUS
<1>2. PICK displ : IsSum(displ, w, n)
  BY SumExists
<1>3. IsDispl(displ, seqs, n) /\ seqs \in [1..n -> Seq(S)]
  <2>1. \A q \in 0..(n - 1) : w[q] = Len(seqs[q + 1])
    BY <1>1
  <2>2. displ[0] = 0 /\ \A q \in 0..(n - 1) : displ[q + 1] = displ[q] + w[q]
    BY <1>2, SumEquations
  <2>3. QED
    BY <1>0, <2>1, <2>2 DEF IsDispl
<1>4. Placed(FlattenSeq(seqs), displ, seqs, n)
  BY <1>3, FlattenBlocks
<1>5. PICK a \in Nat, b \in Nat : a = displ[i - 1] /\ b = displ[i] /\ b <= displ[n] /\ displ[n] \in Nat
  BY <1>3, DisplGrows, SMTT(60)
<1>6. PICK h \in 0..(n - 1) : h = i - 1 /\ h + 1 = i
  OBVIOUS
<1>7. b = a + Len(seqs[i])
  BY <1>3, <1>5, <1>6 DEF IsDispl
<1>8. PICK flat \in Seq(S) : flat = FlattenSeq(seqs)
  BY FlattenType
<1>9. Len(flat) = displ[n] /\ SubSeq(flat, a + 1, b) = seqs[i]
  BY <1>4, <1>5, <1>8 DEF Placed
<1>10. Len(seqs[i]) \in Nat
  BY LenProperties
<1>11. PICK m \in Nat, d \in Nat : /\ m = Len(seqs[i]) /\ j \in 1..m /\ b = a + m
                                   /\ d = displ[n] /\ b <= d /\ Len(flat) = d
  BY <1>5, <1>7, <1>9, <1>10
<1>12. SubSeq(flat, a + 1, b)[j] = flat[a + j]
  <2>1. \A q \in (a + 1)..b : flat[q] \in S
    <3>1. \A q \in (a + 1)..b : q \in 1..d
      BY <1>11
    <3>2. QED
      BY <1>11, <3>1, ElementOfSeq
  <2>2. PICK first \in Int : first = a + 1
    OBVIOUS
  <2>3. \A q \in 1..((b - first) + 1) : SubSeq(flat, first, b)[q] = flat[(first + q) - 1]
    BY <2>1, <2>2, SubSeqProperties
  <2>4. j \in 1..((b - first) + 1) /\ (first + j) - 1 = a + j
    BY <1>11, <2>2
  <2>5. QED
    BY <2>2, <2>3, <2>4
<1>13. a + j \in 1..Len(flat)
  BY <1>11
<1>14. QED
  BY <1>8, <1>9, <1>12, <1>13

\* The monomials that a circuit has in a call.
Monomial(c, call, g, t) == [of |-> <<call, g, t>>, angle |-> c[g].angle, gate |-> g - 1]

\* Each rotation is a monomial of the circuit, and each gate has one at least.
LEMMA ExpandedMonomials ==
  ASSUME NEW c \in Circuits, NEW call \in Nat
  PROVE  LET own == ExpandMonomials(c, call)
         IN  /\ \A i \in 1..Len(own) : \E g \in 1..Len(c), t \in Nat : own[i] = Monomial(c, call, g, t)
             /\ \A g \in 1..Len(c) : \E i \in 1..Len(own) : own[i].gate = g - 1
<1>0. PICK own : own = ExpandMonomials(c, call)
  OBVIOUS
<1>1. PICK n \in Nat : n = Len(c) /\ DOMAIN c = 1..n
  BY CircuitType, LenProperties
<1>2. \A g \in 1..n : c[g].terms \in Nat \ {0}
  <2>1. c \in Seq(Gates)
    BY CircuitType
  <2>2. \A g \in 1..n : c[g] \in Gates
    BY <1>1, <2>1, ElementOfSeq
  <2>3. QED
    BY <2>2 DEF Gates
<1> DEFINE S == {Monomial(c, call, g, t) : g \in 1..n, t \in Nat}
           Terms(g) == [t \in 1..c[g].terms |-> Monomial(c, call, g, t)]
<1>3. ASSUME NEW g \in 1..n PROVE Terms(g) \in Seq(S) /\ 1 \in 1..Len(Terms(g))
                                  /\ Terms(g)[1] = Monomial(c, call, g, 1)
  <2>1. PICK m \in Nat \ {0} : m = c[g].terms
    BY <1>2
  <2>2. [t \in 1..m |-> Monomial(c, call, g, t)] \in [1..m -> S]
    OBVIOUS
  <2>3. PICK x \in Seq(S) : x = [t \in 1..m |-> Monomial(c, call, g, t)]
    <3> HIDE DEF S
    <3>1. PICK x \in [1..m -> S] : x = [t \in 1..m |-> Monomial(c, call, g, t)]
      BY <2>2
    <3>2. x \in Seq(S)
      BY <3>1, SeqDef
    <3>3. QED
      BY <3>1, <3>2
  <2>4. Len(x) = m /\ x[1] = Monomial(c, call, g, 1)
    <3>1. DOMAIN x = 1..m
      BY <2>3
    <3>2. Len(x) = m
      BY <3>1, LenProperties
    <3>3. QED
      BY <2>3, <3>2
  <2>5. x = Terms(g)
    BY <2>1, <2>3
  <2>6. QED
    <3> HIDE DEF S, Terms
    <3>1. QED
      BY <2>3, <2>4, <2>5
<1>4. PICK blocks : blocks = [g \in 1..n |-> Terms(g)]
  OBVIOUS
<1>5. own = FlattenSeq(blocks)
  <2>1. ExpandMonomials(c, call) = FlattenSeq([g \in 1..n |-> Terms(g)])
    BY <1>1 DEF ExpandMonomials, Monomial
  <2> HIDE DEF Terms
  <2>2. QED
    BY <1>0, <1>4, <2>1
<1> HIDE DEF Terms
<1>6. blocks \in [1..n -> Seq(S)] /\ \A g \in 1..n : blocks[g] = Terms(g)
  <2> HIDE DEF S
  <2>1. QED
    BY <1>3, <1>4
<1>7. own \in Seq(S)
  <2> HIDE DEF S
  <2>1. blocks \in Seq(Seq(S))
    BY <1>6, SeqDef
  <2>2. QED
    BY <1>5, <2>1, FlattenType
<1>8. \A i \in 1..Len(own) : \E g \in 1..Len(c), t \in Nat : own[i] = Monomial(c, call, g, t)
  <2>1. \A i \in 1..Len(own) : own[i] \in S
    <3> HIDE DEF S
    <3>1. QED
      BY <1>7, ElementOfSeq
  <2>2. QED
    BY <1>1, <2>1
<1>9. ASSUME NEW g \in 1..n PROVE \E i \in 1..Len(own) : own[i].gate = g - 1
  <2>1. blocks[g] = Terms(g) /\ 1 \in 1..Len(blocks[g]) /\ blocks[g][1] = Monomial(c, call, g, 1)
    <3> HIDE DEF S
    <3>1. QED
      BY <1>3, <1>6
  <2>2. PICK i \in 1..Len(own) : own[i] = blocks[g][1]
    <3> HIDE DEF S
    <3>1. blocks \in Seq(Seq(S)) /\ Len(blocks) = n
      BY <1>6, SeqDef
    <3>2. \A i \in 1..Len(blocks) : \A j \in 1..Len(blocks[i]) :
            \E k \in 1..Len(FlattenSeq(blocks)) : FlattenSeq(blocks)[k] = blocks[i][j]
      BY <3>1, FlattenHolds
    <3>3. \E k \in 1..Len(FlattenSeq(blocks)) : FlattenSeq(blocks)[k] = blocks[g][1]
      BY <2>1, <3>1, <3>2
    <3>4. QED
      BY <1>5, <3>3
  <2>3. own[i].gate = g - 1
    BY <2>1, <2>2 DEF Monomial
  <2>4. QED
    BY <2>3
<1>10. QED
  BY <1>0, <1>1, <1>8, <1>9


\* Circuits that are not empty have parameters, which their rotations use.
LEMMA ExpandedParameters ==
  ASSUME NEW c \in Circuits, c # <<>>, NEW call \in Nat, NEW own, own = ExpandMonomials(c, call)
  PROVE  /\ Len(own) \in Nat \ {0}
         /\ NParameters(c) \in Nat \ {0} /\ NParameters(own) = NParameters(c)
         /\ \A i \in 1..Len(own) : own[i].angle \in Nat /\ own[i].angle < NParameters(c)
<1>1. PICK n \in Nat : n = Len(c) /\ DOMAIN c = 1..n
  BY CircuitType, LenProperties
<1>2. n # 0 /\ \A g \in 1..n : c[g].angle \in Nat
  <2>1. c \in Seq(Gates)
    BY CircuitType
  <2>2. \A g \in 1..n : c[g] \in Gates
    BY <1>1, <2>1, ElementOfSeq
  <2>3. n # 0
    BY <1>1, <2>1, EmptySeq
  <2>4. QED
    BY <2>2, <2>3 DEF Gates
<1>3. PICK top \in Nat \ {0} : /\ top = NParameters(c)
                               /\ \A g \in 1..n : c[g].angle < top
                               /\ \E g \in 1..n : c[g].angle + 1 = top
  BY <1>1, <1>2, LargestAngle
<1>4. PICK l \in Nat : l = Len(own) /\ DOMAIN own = 1..l /\ own \in Seq(Layers)
  <2>1. own \in Seq(Layers)
    BY CircuitType
  <2>2. QED
    BY <2>1, LenProperties
<1>5. ASSUME NEW i \in 1..l
      PROVE  \E g \in 1..n : own[i].angle = c[g].angle /\ own[i].gate = g - 1
  <2>1. \A j \in 1..Len(own) : \E g \in 1..Len(c), t \in Nat : own[j] = Monomial(c, call, g, t)
    BY ExpandedMonomials, ZenonT(60)
  <2>2. PICK g \in 1..n, t \in Nat : own[i] = Monomial(c, call, g, t)
    BY <1>1, <1>4, <2>1
  <2>3. QED
    BY <2>2 DEF Monomial
<1>6. ASSUME NEW i \in 1..l PROVE own[i].angle \in Nat /\ own[i].angle < top
  BY <1>2, <1>3, <1>5
<1>7. PICK g \in 1..n : c[g].angle + 1 = top
  BY <1>3
<1>8. PICK i \in 1..l : own[i].gate = g - 1
  <2>1. \A q \in 1..Len(c) : \E j \in 1..Len(own) : own[j].gate = q - 1
    BY ExpandedMonomials
  <2>2. QED
    BY <1>1, <1>4, <2>1
<1>9. own[i].angle + 1 = top
  <2>1. PICK q \in 1..n : own[i].angle = c[q].angle /\ own[i].gate = q - 1
    BY <1>5
  <2>2. q = g
    BY <1>8, <2>1
  <2>3. QED
    BY <1>7, <2>1, <2>2
<1>10. l \in Nat \ {0} /\ own # <<>>
  BY <1>4, <1>8
<1>11. NParameters(own) = top
  BY <1>4, <1>6, <1>9, <1>10, NParametersIs
<1>12. QED
  BY <1>3, <1>4, <1>6, <1>10, <1>11

------------------------------------------------------------------------------
(***************************************************************************)
(* Where the layers end up                                                 *)
(***************************************************************************)

\* A new layer is a monomial that was moved behind the axis and the gates so far.
LEMMA NewLayersAt ==
  ASSUME NEW g \in Seq(Layers), NEW c \in Circuits, nParams \in Nat, calls \in Nat,
         NEW own, own = ExpandMonomials(c, calls + 1), NEW new, new = NewLayers(g, c)
  PROVE  /\ new \in Seq(Layers) /\ Len(new) = Len(own)
         /\ \A i \in 1..Len(own) : /\ new[i].of = own[i].of
                                   /\ new[i].angle = own[i].angle + nParams
                                   /\ new[i].gate = own[i].gate + NGates(g)
<1>1. new \in Seq(Layers) /\ Len(new) = Len(own)
  BY NewLayersType
<1>2. PICK b \in Nat : b = NGates(g)
  BY NGatesType
<1>3. PICK k \in Nat : k = calls + 1
  OBVIOUS
<1>4. own \in Seq(Layers)
  BY <1>3, CircuitType
<1>5. PICK n \in Nat : n = Len(own) /\ DOMAIN own = 1..n
  BY <1>4, LenProperties
<1>6. ASSUME NEW i \in 1..n
      PROVE  /\ new[i].of = own[i].of /\ new[i].angle = own[i].angle + nParams
             /\ new[i].gate = own[i].gate + b
  <2>1. PICK q \in Layers : q = own[i]
    BY <1>4, <1>5, ElementOfSeq
  <2>2. new[i] = [own[i] EXCEPT !.angle = @ + nParams, !.gate = @ + NGates(g)]
    BY <1>5 DEF NewLayers
  <2>3. PICK d \in Nat, e \in Nat : d = q.angle + nParams /\ e = q.gate + b
    <3>1. q.angle \in Nat /\ q.gate \in Nat
      BY DEF Layers
    <3>2. q.angle + nParams \in Nat /\ q.gate + b \in Nat
      BY <3>1
    <3>3. QED
      BY <3>2
  <2>4. new[i] = [q EXCEPT !.angle = d, !.gate = e]
    BY <1>2, <2>1, <2>2, <2>3
  <2>5. new[i].of = q.of /\ new[i].angle = d /\ new[i].gate = e
    BY <2>4 DEF Layers
  <2>6. QED
    BY <2>1, <2>3, <2>5
<1>7. QED
  BY <1>1, <1>2, <1>5, <1>6

\* What a gate loop went over, in its order.
LEMMA LoopPrefixAt ==
  ASSUME NEW S, NEW r \in Seq(S), NEW n \in 0..Len(r)
  PROVE  \A i \in 1..n : SubSeq(LoopOrder(r), 1, n)[i] =
                           IF schrodinger THEN r[i] ELSE r[(Len(r) - i) + 1]
<1>1. PICK m \in Nat : m = Len(r)
  BY LenProperties
<1>2. LoopOrder(r) \in Seq(S) /\ Len(LoopOrder(r)) = Len(r)
  BY LoopOrderType
<1>3. PICK x \in Seq(S) : x = LoopOrder(r) /\ Len(x) = m
  BY <1>1, <1>2
<1>4. n \in 0..m
  BY <1>1
<1>5. \A i \in 1..n : SubSeq(x, 1, n)[i] = x[i]
  <2>1. \A i \in 1..n : x[i] \in S
    <3>1. \A i \in 1..n : i \in 1..m
      BY <1>4
    <3>2. QED
      BY <1>3, <3>1, ElementOfSeq
  <2>2. PICK k \in Int : k = n
    BY <1>4
  <2>3. \A i \in 1..(k - 1 + 1) : SubSeq(x, 1, k)[i] = x[1 + i - 1]
    BY <2>1, <2>2, SubSeqProperties
  <2>4. \A i \in 1..k : i \in 1..(k - 1 + 1) /\ 1 + i - 1 = i
    BY <2>2
  <2>5. QED
    BY <2>2, <2>3, <2>4
<1>6. \A i \in 1..n : x[i] = IF schrodinger THEN r[i] ELSE r[(m - i) + 1]
  <2>1. CASE schrodinger
    BY <1>3, <2>1 DEF LoopOrder
  <2>2. CASE ~schrodinger
    <3>1. x = Reverse(r)
      BY <1>3, <2>2 DEF LoopOrder
    <3>2. \A i \in 1..Len(r) : Reverse(r)[i] = r[(Len(r) - i) + 1]
      BY ReverseProperties
    <3>3. \A i \in 1..n : i \in 1..m
      BY <1>4
    <3>4. QED
      BY <1>1, <2>2, <3>1, <3>2, <3>3
  <2>3. QED
    BY <2>1, <2>2
<1>7. QED
  BY <1>1, <1>3, <1>5, <1>6

\* Every layer of a graph that a gate loop has grown: those of Schroedinger are in front.
LEMMA GrownAt ==
  ASSUME NEW g \in Seq(Layers), NEW c \in Circuits, nParams \in Nat, calls \in Nat,
         NEW n \in 0..Len(NewLayers(g, c))
  PROVE  LET new == NewLayers(g, c)
             G == Grown(g, c, n)
         IN  /\ Len(G) = Len(g) + n
             /\ schrodinger => /\ \A j \in 1..n : G[j] = new[(n - j) + 1]
                               /\ \A j \in 1..Len(g) : G[n + j] = g[j]
             /\ ~schrodinger => /\ \A j \in 1..Len(g) : G[j] = g[j]
                                /\ \A j \in 1..n : G[Len(g) + j] = new[(Len(new) - j) + 1]
<1>1. PICK new \in Seq(Layers) : new = NewLayers(g, c)
  BY NewLayersType
<1>2. PICK m \in Nat, l \in Nat : m = Len(new) /\ l = Len(g)
  BY LenProperties
<1>3. n \in 0..Len(new) /\ n \in 0..m
  BY <1>1, <1>2
<1>4. PICK x \in Seq(Layers) : x = SubSeq(LoopOrder(new), 1, n) /\ Len(x) = n
  <2>1. SubSeq(LoopOrder(new), 1, n) \in Seq(Layers) /\ Len(SubSeq(LoopOrder(new), 1, n)) = n
    BY <1>3, LoopOrderType
  <2>2. QED
    BY <2>1
<1>5. \A i \in 1..n : x[i] = IF schrodinger THEN new[i] ELSE new[(m - i) + 1]
  <2>1. \A i \in 1..n : SubSeq(LoopOrder(new), 1, n)[i] =
                          IF schrodinger THEN new[i] ELSE new[(Len(new) - i) + 1]
    BY <1>3, LoopPrefixAt
  <2>2. QED
    BY <1>2, <1>4, <2>1
<1>6. PICK G : G = Grown(g, c, n) /\ G = AppendLayers(g, x)
  BY <1>1, <1>4 DEF Grown
<1>7. CASE schrodinger
  <2>1. PICK r \in Seq(Layers) : r = Reverse(x) /\ Len(r) = n /\ \A i \in 1..n : r[i] = x[(n - i) + 1]
    <3>1. /\ Reverse(x) \in Seq(Layers) /\ Len(Reverse(x)) = Len(x)
          /\ \A i \in 1..Len(x) : Reverse(x)[i] = x[(Len(x) - i) + 1]
      BY ReverseProperties
    <3>2. QED
      BY <1>4, <3>1
  <2>2. Len(G) = n + l /\ \A i \in 1..(n + l) : G[i] = IF i <= n THEN r[i] ELSE g[i - n]
    <3>1. /\ Len(r \o g) = Len(r) + Len(g)
          /\ \A i \in 1..(Len(r) + Len(g)) : (r \o g)[i] = IF i <= Len(r) THEN r[i] ELSE g[i - Len(r)]
      BY ConcatProperties
    <3>2. G = r \o g
      BY <1>6, <1>7, <2>1 DEF AppendLayers
    <3>3. QED
      BY <1>2, <2>1, <3>1, <3>2
  <2>3. ASSUME NEW j \in 1..n PROVE G[j] = new[(n - j) + 1]
    <3>1. j \in 1..(n + l) /\ j <= n /\ (n - j) + 1 \in 1..n
      BY <1>3
    <3>2. G[j] = x[(n - j) + 1]
      BY <2>1, <2>2, <3>1
    <3>3. QED
      BY <1>5, <1>7, <3>1, <3>2
  <2>4. ASSUME NEW j \in 1..l PROVE G[n + j] = g[j]
    <3>1. PICK i \in 1..(n + l) : i = n + j /\ ~(i <= n) /\ i - n = j
      BY <1>3
    <3>2. QED
      BY <2>2, <3>1
  <2>5. Len(G) = l + n
    BY <1>3, <2>2
  <2>6. QED
    BY <1>1, <1>2, <1>6, <1>7, <2>3, <2>4, <2>5
<1>8. CASE ~schrodinger
  <2>1. Len(G) = l + n /\ \A i \in 1..(l + n) : G[i] = IF i <= l THEN g[i] ELSE x[i - l]
    <3>1. /\ Len(g \o x) = Len(g) + Len(x)
          /\ \A i \in 1..(Len(g) + Len(x)) : (g \o x)[i] = IF i <= Len(g) THEN g[i] ELSE x[i - Len(g)]
      BY ConcatProperties
    <3>2. G = g \o x
      BY <1>6, <1>8 DEF AppendLayers
    <3>3. QED
      BY <1>2, <1>4, <3>1, <3>2
  <2>2. ASSUME NEW j \in 1..l PROVE G[j] = g[j]
    <3>1. j \in 1..(l + n) /\ j <= l
      BY <1>3
    <3>2. QED
      BY <2>1, <3>1
  <2>3. ASSUME NEW j \in 1..n PROVE G[l + j] = new[(m - j) + 1]
    <3>1. PICK i \in 1..(l + n) : i = l + j /\ ~(i <= l) /\ i - l = j
      BY <1>3
    <3>2. G[i] = x[j]
      BY <2>1, <3>1
    <3>3. QED
      BY <1>5, <1>8, <3>1, <3>2
  <2>4. QED
    BY <1>1, <1>2, <1>6, <1>8, <2>1, <2>2, <2>3
<1>9. QED
  BY <1>7, <1>8

\* So each of its layers is a stored one or a new one.
LEMMA GrownFrom ==
  ASSUME NEW g \in Seq(Layers), NEW c \in Circuits, nParams \in Nat, calls \in Nat,
         NEW n \in 0..Len(NewLayers(g, c)), NEW j \in 1..Len(Grown(g, c, n))
  PROVE  \/ \E i \in 1..Len(g) : Grown(g, c, n)[j] = g[i]
         \/ \E i \in 1..Len(NewLayers(g, c)) : Grown(g, c, n)[j] = NewLayers(g, c)[i]
<1>0. PICK new \in Seq(Layers) : new = NewLayers(g, c)
  BY NewLayersType
<1>1. PICK G : G = Grown(g, c, n)
  OBVIOUS
<1>2. PICK m \in Nat, l \in Nat : m = Len(new) /\ l = Len(g)
  BY LenProperties
<1>3. /\ n \in 0..m /\ j \in 1..(l + n)
      /\ schrodinger => /\ \A i \in 1..n : G[i] = new[(n - i) + 1]
                        /\ \A i \in 1..l : G[n + i] = g[i]
      /\ ~schrodinger => /\ \A i \in 1..l : G[i] = g[i]
                         /\ \A i \in 1..n : G[l + i] = new[(m - i) + 1]
  <2>1. /\ Len(Grown(g, c, n)) = Len(g) + n
        /\ schrodinger => /\ \A i \in 1..n : Grown(g, c, n)[i] = NewLayers(g, c)[(n - i) + 1]
                          /\ \A i \in 1..Len(g) : Grown(g, c, n)[n + i] = g[i]
        /\ ~schrodinger =>
             /\ \A i \in 1..Len(g) : Grown(g, c, n)[i] = g[i]
             /\ \A i \in 1..n : Grown(g, c, n)[Len(g) + i] =
                                  NewLayers(g, c)[(Len(NewLayers(g, c)) - i) + 1]
    BY GrownAt
  <2>2. QED
    BY <1>0, <1>1, <1>2, <2>1
<1>4. ASSUME schrodinger PROVE (\E i \in 1..l : G[j] = g[i]) \/ (\E i \in 1..m : G[j] = new[i])
  <2>1. CASE j <= n
    <3>1. j \in 1..n /\ (n - j) + 1 \in 1..m
      BY <1>3, <2>1
    <3>2. QED
      BY <1>3, <1>4, <3>1
  <2>2. CASE ~(j <= n)
    <3>1. PICK i \in 1..l : n + i = j
      <4>1. j - n \in 1..l /\ n + (j - n) = j
        BY <1>3, <2>2
      <4>2. QED
        BY <4>1
    <3>2. QED
      BY <1>3, <1>4, <3>1
  <2>3. QED
    BY <2>1, <2>2
<1>5. ASSUME ~schrodinger PROVE (\E i \in 1..l : G[j] = g[i]) \/ (\E i \in 1..m : G[j] = new[i])
  <2>1. CASE j <= l
    <3>1. j \in 1..l
      BY <1>3, <2>1
    <3>2. QED
      BY <1>3, <1>5, <3>1
  <2>2. CASE ~(j <= l)
    <3>1. PICK i \in 1..n : l + i = j
      <4>1. j - l \in 1..n /\ l + (j - l) = j
        BY <1>3, <2>2
      <4>2. QED
        BY <4>1
    <3>2. (m - i) + 1 \in 1..m
      BY <1>3
    <3>3. QED
      BY <1>3, <1>5, <3>1, <3>2
  <2>3. QED
    BY <2>1, <2>2
<1>6. (\E i \in 1..l : G[j] = g[i]) \/ (\E i \in 1..m : G[j] = new[i])
  BY <1>4, <1>5
<1>7. QED
  BY <1>0, <1>1, <1>2, <1>6

------------------------------------------------------------------------------
(***************************************************************************)
(* Gate indices                                                            *)
(***************************************************************************)

\* The rotations of new layers are of this call, their gates follow those so far.
LEMMA NewGates ==
  ASSUME NEW g \in Seq(Layers), NEW c \in Circuits, nParams \in Nat, calls \in Nat
  PROVE  \A i \in 1..Len(NewLayers(g, c)) : \E q \in 1..Len(c), t \in Nat :
           /\ NewLayers(g, c)[i].of = <<calls + 1, q, t>>
           /\ NewLayers(g, c)[i].gate = (q - 1) + NGates(g)
<1>1. PICK call \in Nat : call = calls + 1
  OBVIOUS
<1>2. PICK own : own = ExpandMonomials(c, calls + 1) /\ own = ExpandMonomials(c, call)
  BY <1>1
<1>3. PICK new : new = NewLayers(g, c)
  OBVIOUS
<1>4. /\ Len(new) = Len(own)
      /\ \A i \in 1..Len(own) : /\ new[i].of = own[i].of
                                /\ new[i].gate = own[i].gate + NGates(g)
  BY <1>2, <1>3, NewLayersAt
<1>5. \A i \in 1..Len(own) : \E q \in 1..Len(c), t \in Nat : own[i] = Monomial(c, call, q, t)
  <2>1. \A i \in 1..Len(ExpandMonomials(c, call)) : \E q \in 1..Len(c), t \in Nat :
          ExpandMonomials(c, call)[i] = Monomial(c, call, q, t)
    BY ExpandedMonomials
  <2>2. QED
    BY <1>2, <2>1
<1>6. ASSUME NEW i \in 1..Len(new)
      PROVE  \E q \in 1..Len(c), t \in Nat :
               new[i].of = <<call, q, t>> /\ new[i].gate = (q - 1) + NGates(g)
  <2>1. PICK q \in 1..Len(c), t \in Nat : own[i] = Monomial(c, call, q, t)
    BY <1>4, <1>5
  <2>2. own[i].of = <<call, q, t>> /\ own[i].gate = q - 1
    BY <2>1 DEF Monomial
  <2>3. QED
    BY <1>4, <2>2
<1>7. QED
  BY <1>1, <1>3, <1>6

\* What was authored up to one call was authored up to a later one.
LEMMA OrderedLater ==
  ASSUME NEW g \in Seq(Layers), NEW a \in Nat, NEW b \in Nat, a <= b, GatesOrdered(g, a)
  PROVE  GatesOrdered(g, b)
<1>1. ASSUME NEW l \in DOMAIN g PROVE g[l].of[1] <= b
  <2>1. g[l].of \in Nat \X Nat \X Nat /\ g[l].of[1] <= a
    BY DEF GatesOrdered
  <2>2. g[l].of[1] \in Nat
    BY <2>1
  <2>3. QED
    BY <2>1, <2>2
<1>2. QED
  BY <1>1 DEF GatesOrdered

\* A graph of no layers has its gates in order.
LEMMA OrderedEmpty ==
  ASSUME NEW a
  PROVE  GatesOrdered(<<>>, a) /\ GatesContiguous(<<>>)
  BY NoGates DEF GatesOrdered, GatesContiguous

\* Each layer of H is of the rotation and the gate of one of g or of new.
Gathers(H, g, new) ==
  \A j \in DOMAIN H :
    \/ \E i \in 1..Len(g) : H[j].of = g[i].of /\ H[j].gate = g[i].gate
    \/ \E i \in 1..Len(new) : H[j].of = new[i].of /\ H[j].gate = new[i].gate

\* H has all the gates of g.
HasGates(H, g) == \A i \in 1..Len(g) : \E j \in DOMAIN H : H[j].gate = g[i].gate

\* H has the gates of stored layers and of new ones: they are in order, because the
\* new ones are of a later call and behind the stored ones.
LEMMA GrownOrdered ==
  ASSUME NEW g \in Seq(Layers), NEW c \in Circuits, nParams \in Nat, calls \in Nat,
         GatesOrdered(g, calls), NEW H, Gathers(H, g, NewLayers(g, c))
  PROVE  GatesOrdered(H, calls + 1)
<1>0. PICK new : new = NewLayers(g, c) /\ Gathers(H, g, new)
  OBVIOUS
<1>1. PICK b \in Nat : b = NGates(g)
  BY NGatesType
<1>2. PICK n \in Nat, m \in Nat : n = Len(g) /\ DOMAIN g = 1..n /\ m = Len(c)
  BY CircuitType, LenProperties
<1> DEFINE Old(j, i) == H[j].of = g[i].of /\ H[j].gate = g[i].gate
           New(j, q, t) == H[j].of = <<calls + 1, q, t>> /\ H[j].gate = (q - 1) + b
<1>3. ASSUME NEW j \in DOMAIN H
      PROVE  (\E i \in 1..n : Old(j, i)) \/ (\E q \in 1..m, t \in Nat : New(j, q, t))
  <2>1. CASE \E i \in 1..Len(g) : H[j].of = g[i].of /\ H[j].gate = g[i].gate
    BY <1>2, <2>1
  <2>2. CASE \E i \in 1..Len(new) : H[j].of = new[i].of /\ H[j].gate = new[i].gate
    <3>1. PICK i \in 1..Len(new) : H[j].of = new[i].of /\ H[j].gate = new[i].gate
      BY <2>2
    <3>2. PICK q \in 1..m, t \in Nat : /\ new[i].of = <<calls + 1, q, t>>
                                       /\ new[i].gate = (q - 1) + b
      BY <1>0, <1>1, <1>2, NewGates
    <3>3. QED
      BY <3>1, <3>2
  <2>3. QED
    BY <1>0, <2>1, <2>2 DEF Gathers
<1>4. ASSUME NEW i \in 1..n
      PROVE  /\ g[i].of \in Nat \X Nat \X Nat /\ g[i].of[1] <= calls
             /\ g[i].gate \in Nat /\ g[i].gate < b
  <2>1. g[i] \in Layers /\ g[i].gate + 1 \in 1..NGates(g)
    BY <1>2, ElementOfSeq, NGatesType
  <2>2. g[i].gate \in Nat
    BY <2>1 DEF Layers
  <2>3. QED
    BY <1>1, <1>2, <2>1, <2>2 DEF GatesOrdered
<1>5. ASSUME NEW j \in DOMAIN H
      PROVE  H[j].of \in Nat \X Nat \X Nat /\ H[j].of[1] <= calls + 1
  <2>1. CASE \E i \in 1..n : Old(j, i)
    <3>1. PICK i \in 1..n : Old(j, i)
      BY <2>1
    <3>2. g[i].of[1] \in Nat
      BY <1>4
    <3>3. QED
      BY <1>4, <3>1, <3>2
  <2>2. CASE \E q \in 1..m, t \in Nat : New(j, q, t)
    BY <2>2
  <2>3. QED
    BY <1>3, <2>1, <2>2
<1>6. ASSUME NEW k \in DOMAIN H, NEW l \in DOMAIN H
      PROVE  H[k].gate < H[l].gate <=> Before(H[k].of, H[l].of)
  <2>1. CASE (\E i \in 1..n : Old(k, i)) /\ (\E i \in 1..n : Old(l, i))
    <3>1. PICK i \in 1..n, j \in 1..n : Old(k, i) /\ Old(l, j)
      BY <2>1
    <3>2. g[i].gate < g[j].gate <=> Before(g[i].of, g[j].of)
      BY <1>2 DEF GatesOrdered
    <3>3. QED
      BY <3>1, <3>2
  <2>2. CASE (\E i \in 1..n : Old(k, i)) /\ (\E q \in 1..m, t \in Nat : New(l, q, t))
    <3>1. PICK i \in 1..n, q \in 1..m, t \in Nat : Old(k, i) /\ New(l, q, t)
      BY <2>2
    <3>2. g[i].of[1] <= calls /\ g[i].of[1] \in Nat /\ g[i].gate \in Nat /\ g[i].gate < b
      BY <1>4
    <3>3. H[k].gate < H[l].gate /\ H[k].of[1] < H[l].of[1]
      BY <3>1, <3>2, SMTT(60)
    <3>4. QED
      BY <3>3 DEF Before
  <2>3. CASE (\E q \in 1..m, t \in Nat : New(k, q, t)) /\ (\E i \in 1..n : Old(l, i))
    <3>1. PICK i \in 1..n, q \in 1..m, t \in Nat : Old(l, i) /\ New(k, q, t)
      BY <2>3
    <3>2. g[i].of[1] <= calls /\ g[i].of[1] \in Nat /\ g[i].gate \in Nat /\ g[i].gate < b
      BY <1>4
    <3>3. ~(H[k].gate < H[l].gate) /\ ~(H[k].of[1] <= H[l].of[1]) /\ H[k].of[1] \in Nat
            /\ H[l].of[1] \in Nat
      BY <3>1, <3>2, SMTT(60)
    <3>4. QED
      BY <3>3 DEF Before
  <2>4. CASE (\E q \in 1..m, t \in Nat : New(k, q, t)) /\ (\E q \in 1..m, t \in Nat : New(l, q, t))
    <3>1. PICK q \in 1..m, t \in Nat : New(k, q, t)
      BY <2>4
    <3>2. PICK r \in 1..m, u \in Nat : New(l, r, u)
      BY <2>4
    <3>3. /\ H[k].of[1] = H[l].of[1] /\ H[k].of[1] \in Nat
          /\ H[k].of[2] = q /\ H[l].of[2] = r
      BY <3>1, <3>2
    <3>4. H[k].gate < H[l].gate <=> q < r
      BY <3>1, <3>2
    <3>5. QED
      BY <3>3, <3>4 DEF Before
  <2>5. QED
    BY <1>3, <2>1, <2>2, <2>3, <2>4
<1>7. QED
  BY <1>5, <1>6 DEF GatesOrdered

\* A gate loop that ran to its end appended all of its layers.
LEMMA GrownHolds ==
  ASSUME NEW g \in Seq(Layers), NEW c \in Circuits, nParams \in Nat, calls \in Nat,
         Grown(g, c, Len(NewLayers(g, c))) \in Seq(Layers)
  PROVE  LET new == NewLayers(g, c)
             G == Grown(g, c, Len(new))
         IN  /\ \A i \in 1..Len(g) : \E j \in 1..Len(G) : G[j] = g[i]
             /\ \A i \in 1..Len(new) : \E j \in 1..Len(G) : G[j] = new[i]
<1>1. PICK new \in Seq(Layers) : new = NewLayers(g, c)
  BY NewLayersType
<1>2. PICK G \in Seq(Layers) : G = Grown(g, c, Len(NewLayers(g, c))) /\ G = Grown(g, c, Len(new))
  BY <1>1
<1>3. PICK l \in Nat, m \in Nat : l = Len(g) /\ m = Len(new) /\ m \in 0..Len(NewLayers(g, c))
  BY <1>1, LenProperties
<1>4. /\ Len(G) = l + m
      /\ schrodinger => /\ \A j \in 1..m : G[j] = new[(m - j) + 1]
                        /\ \A j \in 1..l : G[m + j] = g[j]
      /\ ~schrodinger => /\ \A j \in 1..l : G[j] = g[j]
                         /\ \A j \in 1..m : G[l + j] = new[(m - j) + 1]
  <2>1. /\ Len(Grown(g, c, m)) = Len(g) + m
        /\ schrodinger => /\ \A i \in 1..m : Grown(g, c, m)[i] = NewLayers(g, c)[(m - i) + 1]
                          /\ \A i \in 1..Len(g) : Grown(g, c, m)[m + i] = g[i]
        /\ ~schrodinger =>
             /\ \A i \in 1..Len(g) : Grown(g, c, m)[i] = g[i]
             /\ \A i \in 1..m : Grown(g, c, m)[Len(g) + i] =
                                  NewLayers(g, c)[(Len(NewLayers(g, c)) - i) + 1]
    BY <1>3, GrownAt
  <2>2. QED
    BY <1>1, <1>2, <1>3, <2>1
<1>5. ASSUME NEW i \in 1..l PROVE \E j \in 1..(l + m) : G[j] = g[i]
  <2>1. i \in 1..(l + m) /\ m + i \in 1..(l + m)
    OBVIOUS
  <2>2. QED
    BY <1>4, <2>1
<1>6. ASSUME NEW i \in 1..m PROVE \E j \in 1..(l + m) : G[j] = new[i]
  <2>1. PICK k \in 1..m : k = (m - i) + 1 /\ (m - k) + 1 = i
    OBVIOUS
  <2>2. k \in 1..(l + m) /\ l + k \in 1..(l + m)
    OBVIOUS
  <2>3. QED
    BY <1>4, <2>1, <2>2
<1>7. QED
  BY <1>1, <1>2, <1>3, <1>4, <1>5, <1>6

\* H has all gates of stored layers and of new ones, and no others: none is left out.
LEMMA GrownContiguous ==
  ASSUME NEW g \in Seq(Layers), GatesContiguous(g), NEW c \in Circuits, c # <<>>,
         nParams \in Nat, calls \in Nat,
         NEW H \in Seq(Layers), Gathers(H, g, NewLayers(g, c)),
         HasGates(H, g), HasGates(H, NewLayers(g, c))
  PROVE  GatesContiguous(H)
<1>1. PICK new : new = NewLayers(g, c)
  OBVIOUS
<1>2. /\ \A j \in DOMAIN H : \/ \E i \in 1..Len(g) : H[j].gate = g[i].gate
                             \/ \E i \in 1..Len(new) : H[j].gate = new[i].gate
      /\ \A i \in 1..Len(g) : \E j \in DOMAIN H : H[j].gate = g[i].gate
      /\ \A i \in 1..Len(new) : \E j \in DOMAIN H : H[j].gate = new[i].gate
  BY <1>1 DEF Gathers, HasGates
<1>3. PICK b \in Nat : b = NGates(g)
  BY NGatesType
<1>4. PICK n \in Nat, m \in Nat \ {0} : n = Len(g) /\ DOMAIN g = 1..n /\ m = Len(c)
  <2>1. c \in Seq(Gates)
    BY CircuitType
  <2>2. Len(c) \in Nat \ {0}
    BY <2>1, LenProperties, EmptySeq
  <2>3. QED
    BY <2>2, LenProperties
<1>5. ASSUME NEW i \in 1..n PROVE g[i].gate \in Nat /\ g[i].gate < b
  <2>1. g[i] \in Layers /\ g[i].gate + 1 \in 1..NGates(g)
    BY <1>4, ElementOfSeq, NGatesType
  <2>2. g[i].gate \in Nat
    BY <2>1 DEF Layers
  <2>3. QED
    BY <1>3, <2>1, <2>2
<1>6. ASSUME NEW i \in 1..Len(new) PROVE \E q \in 1..m : new[i].gate = (q - 1) + b
  <2>1. \A k \in 1..Len(NewLayers(g, c)) : \E q \in 1..Len(c), t \in Nat :
           /\ NewLayers(g, c)[k].of = <<calls + 1, q, t>>
           /\ NewLayers(g, c)[k].gate = (q - 1) + NGates(g)
    BY NewGates
  <2>2. QED
    BY <1>1, <1>3, <1>4, <2>1
<1>7. ASSUME NEW q \in 1..m PROVE \E i \in 1..Len(new) : new[i].gate = (q - 1) + b
  <2>1. PICK call \in Nat : call = calls + 1
    OBVIOUS
  <2>2. PICK own : own = ExpandMonomials(c, call) /\ own = ExpandMonomials(c, calls + 1)
    BY <2>1
  <2>3. \A k \in 1..Len(c) : \E i \in 1..Len(ExpandMonomials(c, call)) :
          ExpandMonomials(c, call)[i].gate = k - 1
    BY ExpandedMonomials
  <2>4. PICK i \in 1..Len(own) : own[i].gate = q - 1
    BY <1>4, <2>2, <2>3
  <2>5. Len(new) = Len(own) /\ new[i].gate = own[i].gate + NGates(g)
    BY <1>1, <2>2, NewLayersAt
  <2>6. QED
    BY <1>3, <2>4, <2>5
<1>8. PICK last \in DOMAIN H : H[last].gate = (m - 1) + b
  BY <1>2, <1>7
<1>9. \A j \in DOMAIN H : H[j].gate < b + m
  BY <1>2, <1>4, <1>5, <1>6, SMTT(60)
<1>10. NGates(H) = b + m
  <2>1. PICK top \in Nat : top = b + m
    OBVIOUS
  <2>2. H[last].gate + 1 = top
    BY <1>8, <2>1
  <2>3. QED
    BY <1>9, <2>1, <2>2, NGatesIs
<1>11. PICK top \in Nat : top = NGates(H) /\ top = b + m
  BY <1>10
<1>12. ASSUME NEW k \in 0..(top - 1) PROVE \E j \in DOMAIN H : H[j].gate = k
  <2>1. CASE k < b
    <3>1. k \in 0..(NGates(g) - 1)
      BY <1>3, <2>1
    <3>2. PICK i \in 1..n : g[i].gate = k
      BY <1>4, <3>1 DEF GatesContiguous
    <3>3. QED
      BY <1>2, <1>4, <3>2
  <2>2. CASE ~(k < b)
    <3>1. PICK q \in 1..m : (q - 1) + b = k
      <4>1. (k - b) + 1 \in 1..m /\ (((k - b) + 1) - 1) + b = k
        BY <1>11, <2>2
      <4>2. QED
        BY <4>1
    <3>2. PICK i \in 1..Len(new) : new[i].gate = (q - 1) + b
      BY <1>7
    <3>3. PICK j \in DOMAIN H : H[j].gate = new[i].gate
      BY <1>2
    <3>4. QED
      BY <3>1, <3>2, <3>3
  <2>3. QED
    BY <2>1, <2>2
<1>13. QED
  BY <1>11, <1>12 DEF GatesContiguous

\* Another mapping, layer by layer.
LEMMA RemappedAt ==
  ASSUME NEW g \in Seq(Layers), NEW mapping, NEW l \in DOMAIN g
  PROVE  /\ SetParameterMapping(g, mapping)[l].of = g[l].of
         /\ SetParameterMapping(g, mapping)[l].gate = g[l].gate
         /\ SetParameterMapping(g, mapping)[l].angle =
              IF Len(mapping) = Len(g) THEN mapping[Len(g) + 1 - l] ELSE mapping[g[l].gate + 1]
<1>1. PICK q \in Layers : q = g[l]
  BY ElementOfSeq, LenProperties
<1>2. PICK a : a = IF Len(mapping) = Len(g) THEN mapping[Len(g) + 1 - l] ELSE mapping[g[l].gate + 1]
  OBVIOUS
<1>3. SetParameterMapping(g, mapping)[l] = [q EXCEPT !.angle = a]
  BY <1>1, <1>2 DEF SetParameterMapping
<1>4. [q EXCEPT !.angle = a].of = q.of /\ [q EXCEPT !.angle = a].gate = q.gate
        /\ [q EXCEPT !.angle = a].angle = a
  BY DEF Layers
<1>5. QED
  BY <1>1, <1>2, <1>3, <1>4

\* With the indices in order and none left out, a gate's index is the number of
\* gates that were authored before it.
LEMMA AuthoredIs ==
  ASSUME NEW g \in Seq(Layers), NEW a, GatesOrdered(g, a), GatesContiguous(g),
         \A i \in DOMAIN single : \E k \in DOMAIN g : single[i].of = g[k].of,
         \A k \in DOMAIN g : \E i \in DOMAIN single : single[i].of = g[k].of,
         NEW l \in DOMAIN g
  PROVE  Authored(g[l].of) = g[l].gate
<1>1. \A k \in DOMAIN g : /\ g[k].of \in Nat \X Nat \X Nat
                          /\ g[k].gate \in Nat /\ g[k].gate + 1 \in 1..NGates(g)
  <2>1. \A k \in DOMAIN g : g[k] \in Layers
    BY ElementOfSeq, LenProperties
  <2>2. QED
    BY <2>1, NGatesType DEF Layers, GatesOrdered
<1>2. PICK q \in Nat, top \in Nat : q = g[l].gate /\ top = NGates(g) /\ q + 1 \in 1..top
  BY <1>1, NGatesType
<1> DEFINE Pair(k) == <<g[k].of[1], g[k].of[2]>>
           P == {<<single[i].of[1], single[i].of[2]>> : i \in DOMAIN single}
           B == {p \in P : Before(p, g[l].of)}
<1>3. P = {Pair(k) : k \in DOMAIN g}
  <2>1. ASSUME NEW i \in DOMAIN single PROVE \E k \in DOMAIN g : <<single[i].of[1], single[i].of[2]>> = Pair(k)
    OBVIOUS
  <2>2. ASSUME NEW k \in DOMAIN g PROVE \E i \in DOMAIN single : <<single[i].of[1], single[i].of[2]>> = Pair(k)
    OBVIOUS
  <2>3. P \subseteq {Pair(k) : k \in DOMAIN g}
    <3> HIDE DEF Pair
    <3>1. QED
      BY <2>1
  <2>4. {Pair(k) : k \in DOMAIN g} \subseteq P
    <3> HIDE DEF Pair
    <3>1. QED
      BY <2>2, ZenonT(60)
  <2>5. QED
    BY <2>3, <2>4
<1>4. \A k \in DOMAIN g : Before(Pair(k), g[l].of) <=> g[k].gate < q
  <2>1. \A k \in DOMAIN g : g[k].gate < g[l].gate <=> Before(g[k].of, g[l].of)
    BY DEF GatesOrdered
  <2>2. \A k \in DOMAIN g : Before(Pair(k), g[l].of) <=> Before(g[k].of, g[l].of)
    BY DEF Before
  <2>3. QED
    BY <1>2, <2>1, <2>2
<1>5. ASSUME NEW i \in DOMAIN g, NEW j \in DOMAIN g
      PROVE  Pair(i) = Pair(j) <=> g[i].gate = g[j].gate
  <2>1. /\ g[i].gate < g[j].gate <=> Before(g[i].of, g[j].of)
        /\ g[j].gate < g[i].gate <=> Before(g[j].of, g[i].of)
    BY DEF GatesOrdered
  <2>2. /\ g[i].of[1] \in Nat /\ g[i].of[2] \in Nat
        /\ g[j].of[1] \in Nat /\ g[j].of[2] \in Nat
    BY <1>1
  <2>3. Before(g[i].of, g[j].of) \/ Before(g[j].of, g[i].of)
          \/ (g[i].of[1] = g[j].of[1] /\ g[i].of[2] = g[j].of[2])
    <3>1. PICK x \in Nat, y \in Nat, u \in Nat, v \in Nat :
            x = g[i].of[1] /\ y = g[i].of[2] /\ u = g[j].of[1] /\ v = g[j].of[2]
      BY <2>2
    <3>2. x < u \/ (x = u /\ y < v) \/ u < x \/ (u = x /\ v < y) \/ (x = u /\ y = v)
      OBVIOUS
    <3>3. QED
      BY <3>1, <3>2 DEF Before
  <2>4. g[i].gate \in Nat /\ g[j].gate \in Nat
    BY <1>1
  <2>5. ASSUME g[i].gate = g[j].gate PROVE Pair(i) = Pair(j)
    BY <2>1, <2>3, <2>4, <2>5
  <2>6. ASSUME Pair(i) = Pair(j) PROVE g[i].gate = g[j].gate
    <3>1. g[i].of[1] = g[j].of[1] /\ g[i].of[2] = g[j].of[2]
      BY <2>6
    <3>2. ~Before(g[i].of, g[j].of) /\ ~Before(g[j].of, g[i].of)
      BY <2>2, <3>1, SMTT(60) DEF Before
    <3>3. QED
      BY <2>1, <2>4, <3>2, SMTT(60)
  <2>7. QED
    BY <2>5, <2>6
<1>6. \A m \in 1..q : \E k \in DOMAIN g : g[k].gate = m - 1
  <2>1. \A m \in 1..q : m - 1 \in 0..(top - 1)
    BY <1>2
  <2>2. QED
    BY <1>2, <2>1 DEF GatesContiguous
<1>7. PICK at : /\ at \in [1..q -> DOMAIN g] /\ \A m \in 1..q : g[at[m]].gate = m - 1
  <2>1. PICK at : at = [m \in 1..q |-> CHOOSE k \in DOMAIN g : g[k].gate = m - 1]
    OBVIOUS
  <2>2. \A m \in 1..q : at[m] \in DOMAIN g /\ g[at[m]].gate = m - 1
    BY <1>6, <2>1
  <2>3. QED
    BY <2>1, <2>2
<1>8. PICK f : f = [m \in 1..q |-> Pair(at[m])]
  OBVIOUS
<1>9. f \in [1..q -> B]
  <2>1. ASSUME NEW m \in 1..q PROVE Pair(at[m]) \in B
    <3>1. at[m] \in DOMAIN g /\ g[at[m]].gate < q
      BY <1>7
    <3>2. QED
      BY <1>3, <1>4, <3>1
  <2>2. QED
    BY <1>8, <2>1
<1>10. \A m, n \in 1..q : f[m] = f[n] => m = n
  <2>1. ASSUME NEW m \in 1..q, NEW n \in 1..q, f[m] = f[n] PROVE m = n
    <3>1. Pair(at[m]) = Pair(at[n])
      BY <1>8, <2>1
    <3>2. g[at[m]].gate = g[at[n]].gate
      BY <1>5, <1>7, <3>1
    <3>3. m - 1 = n - 1
      BY <1>7, <3>2
    <3>4. QED
      BY <3>3
  <2>2. QED
    BY <2>1
<1>11. \A p \in B : \E m \in 1..q : f[m] = p
  <2>1. ASSUME NEW p \in B PROVE \E m \in 1..q : f[m] = p
    <3>1. PICK k \in DOMAIN g : p = Pair(k)
      BY <1>3
    <3>2. g[k].gate < q /\ g[k].gate \in Nat
      BY <1>1, <1>4, <3>1
    <3>3. PICK m \in 1..q : m - 1 = g[k].gate
      <4>1. PICK r \in Nat : r = g[k].gate /\ r < q
        BY <3>2
      <4>2. r + 1 \in 1..q /\ (r + 1) - 1 = r
        <5> HIDE DEF B, P, Pair
        <5>1. QED
          BY <4>1
      <4>3. QED
        BY <4>1, <4>2
    <3>4. Pair(at[m]) = Pair(k)
      BY <1>5, <1>7, <3>3, SMTT(60)
    <3>5. QED
      BY <1>8, <3>1, <3>4
  <2>2. QED
    BY <2>1
<1>12. f \in Bijection(1..q, B)
  <2> HIDE DEF B
  <2>1. QED
    BY <1>9, <1>10, <1>11, Fun_IsBij
<1>13. Cardinality(B) = q
  <2> HIDE DEF B
  <2>1. ExistsBijection(1..q, B)
    BY <1>12 DEF ExistsBijection
  <2>2. QED
    BY <2>1, FS_CountingElements
<1>14. Authored(g[l].of) = Cardinality(B)
  BY DEF Authored
<1>15. QED
  BY <1>2, <1>13, <1>14

------------------------------------------------------------------------------
(***************************************************************************)
(* build_graph                                                             *)
(***************************************************************************)

\* Where the axis of a layer's angle ends up when circuit c is built.
Wrapped(c, a) ==
  IF RotatesAxis(c) THEN Lifted(a, NParameters(c), nParams + NParameters(c)) ELSE a

\* H has the layers of G with their angles moved.
Settled(H, G, c) ==
  /\ Len(H) = Len(G)
  /\ \A j \in 1..Len(G) : /\ H[j].of = G[j].of /\ H[j].gate = G[j].gate
                          /\ H[j].angle = Wrapped(c, G[j].angle)

\* All partitions get the layers that the gate loop left, with their angles moved.
LEMMA BuildLayers ==
  ASSUME ReplayInv, NEW c \in Circuits, Build(c), NEW g, g = graph[FirstPart],
         NEW G, G = Grown(g, c, Len(NewLayers(g, c)))
  PROVE  /\ g \in Seq(Layers) /\ G \in Seq(Layers)
         /\ \E H \in Seq(Layers) : (\A p \in Parts : graph'[p] = H) /\ Settled(H, G, c)
<1>1. /\ \A p, q \in Parts : graph[p] = graph[q]
      /\ \A p \in Parts : graph[p] \in Seq(Layers)
      /\ FirstPart \in Parts /\ calls \in Nat
  BY CallFacts DEF Build
<1>2. nParams \in Nat /\ NParameters(c) \in Nat
  BY CircuitType DEF ReplayInv, SessionTypeOK
<1>3. g \in Seq(Layers) /\ \A p \in Parts : graph[p] = g
  BY <1>1
<1>4. G \in Seq(Layers)
  <2>1. PICK n \in 0..Len(ExpandMonomials(c, calls + 1)) : n = Len(NewLayers(g, c))
    BY <1>1, <1>2, <1>3, GrownRotations
  <2>2. Grown(g, c, n) \in Seq(Layers)
    BY <1>1, <1>2, <1>3, GrownType
  <2>3. QED
    BY <2>1, <2>2
<1>5. PICK m \in Nat : m = Len(G) /\ DOMAIN G = 1..m
  BY <1>4, LenProperties
<1>6. nParams' = nParams + NParameters(c)
  BY DEF Build
<1>7. PICK grown : grown = [p \in Parts |-> Grown(graph[p], c, Len(NewLayers(graph[p], c)))]
  OBVIOUS
<1>8. \A p \in Parts : grown[p] = G
  BY <1>3, <1>7
<1>9. PICK old : old = ParameterMapping(grown[FirstPart])
  OBVIOUS
<1>10. PICK rotated : rotated = [i \in DOMAIN old |-> Lifted(old[i], NParameters(c), nParams')]
  OBVIOUS
<1>11. graph' = IF RotatesAxis(c) THEN [p \in Parts |-> SetParameterMapping(grown[p], rotated)]
                ELSE grown
  BY <1>7, <1>9, <1>10 DEF Build
<1>12. CASE ~RotatesAxis(c)
  <2>1. \A p \in Parts : graph'[p] = G
    BY <1>8, <1>11, <1>12
  <2>2. \A j \in 1..Len(G) : G[j].angle = Wrapped(c, G[j].angle)
    BY <1>12 DEF Wrapped
  <2>3. Settled(G, G, c)
    BY <2>2 DEF Settled
  <2>4. QED
    BY <1>3, <1>4, <2>1, <2>3
<1>13. CASE RotatesAxis(c)
  <2>1. PICK new \in Nat, n \in Nat \ {0} : new = NParameters(c) /\ n = nParams'
    BY <1>2, <1>6, <1>13 DEF RotatesAxis
  <2>2. old = ParameterMapping(G)
    BY <1>1, <1>8, <1>9
  <2>3. rotated \in Seq(Nat) /\ Len(rotated) = Len(G)
    BY <1>4, <1>10, <2>1, <2>2, RotatedType
  <2>4. PICK H : H = SetParameterMapping(G, rotated)
    OBVIOUS
  <2>5. H \in Seq(Layers) /\ Len(H) = Len(G)
    BY <1>4, <2>3, <2>4, SetParameterMappingType
  <2>6. \A p \in Parts : graph'[p] = H
    BY <1>8, <1>11, <1>13, <2>4
  <2>7. ASSUME NEW j \in 1..m
        PROVE  H[j].of = G[j].of /\ H[j].gate = G[j].gate /\ H[j].angle = Wrapped(c, G[j].angle)
    <3>1. /\ H[j].of = G[j].of /\ H[j].gate = G[j].gate
          /\ H[j].angle = IF Len(rotated) = Len(G) THEN rotated[Len(G) + 1 - j]
                          ELSE rotated[G[j].gate + 1]
      BY <1>4, <1>5, <2>4, RemappedAt
    <3>2. PICK i \in 1..m : i = m + 1 - j /\ m + 1 - i = j
      <4>1. m + 1 - j \in 1..m /\ m + 1 - (m + 1 - j) = j
        OBVIOUS
      <4>2. QED
        BY <4>1
    <3>3. old[i] = G[j].angle /\ i \in DOMAIN old
      BY <1>5, <2>2, <3>2 DEF ParameterMapping
    <3>4. rotated[i] = Lifted(G[j].angle, NParameters(c), nParams + NParameters(c))
      BY <1>6, <1>10, <3>3
    <3>5. H[j].angle = rotated[i]
      BY <1>5, <2>3, <3>1, <3>2
    <3>6. QED
      BY <1>13, <3>1, <3>4, <3>5 DEF Wrapped
  <2>8. Settled(H, G, c)
    BY <1>5, <2>5, <2>7 DEF Settled
  <2>9. QED
    BY <1>3, <1>4, <2>5, <2>6, <2>8
<1>14. QED
  BY <1>12, <1>13

\* The gates stay in order, and none is left out.
LEMMA BuildGates ==
  ASSUME ReplayInv, AxisInv, NEW c \in Circuits, Build(c)
  PROVE  /\ \A p \in Parts : GatesOrdered(graph'[p], calls')
         /\ fails = 0 => \A p \in Parts : GatesContiguous(graph'[p])
<1>1. /\ FirstPart \in Parts /\ calls \in Nat /\ calls' = calls + 1
  BY CallFacts DEF Build
<1>2. nParams \in Nat
  BY DEF ReplayInv, SessionTypeOK
<1>3. PICK g : g = graph[FirstPart]
  OBVIOUS
<1>4. PICK G : G = Grown(g, c, Len(NewLayers(g, c)))
  OBVIOUS
<1>5. g \in Seq(Layers) /\ G \in Seq(Layers)
  BY <1>3, <1>4, BuildLayers
<1>6. PICK H \in Seq(Layers) :
        /\ \A p \in Parts : graph'[p] = H
        /\ Len(H) = Len(G)
        /\ \A j \in 1..Len(G) : H[j].of = G[j].of /\ H[j].gate = G[j].gate
  <2>1. PICK H \in Seq(Layers) : (\A p \in Parts : graph'[p] = H) /\ Settled(H, G, c)
    BY <1>3, <1>4, BuildLayers
  <2>2. QED
    BY <2>1 DEF Settled
<1>7. PICK new \in Seq(Layers) : new = NewLayers(g, c)
  BY <1>1, <1>2, <1>5, NewLayersType
<1>8. PICK n \in Nat, m \in Nat, k \in Nat : /\ n = Len(g) /\ DOMAIN g = 1..n /\ m = Len(new)
                                             /\ k = Len(G) /\ DOMAIN H = 1..k
  BY <1>5, <1>6, LenProperties
<1>9. ASSUME NEW j \in DOMAIN H
      PROVE  \/ \E i \in 1..Len(g) : H[j].of = g[i].of /\ H[j].gate = g[i].gate
             \/ \E i \in 1..Len(new) : H[j].of = new[i].of /\ H[j].gate = new[i].gate
  <2>1. m \in 0..Len(NewLayers(g, c)) /\ j \in 1..Len(Grown(g, c, m)) /\ G = Grown(g, c, m)
    BY <1>4, <1>7, <1>8
  <2>2. \/ \E i \in 1..Len(g) : G[j] = g[i]
        \/ \E i \in 1..Len(new) : G[j] = new[i]
    BY <1>1, <1>2, <1>5, <1>7, <2>1, GrownFrom
  <2>3. H[j].of = G[j].of /\ H[j].gate = G[j].gate
    BY <1>6, <1>8
  <2>4. QED
    BY <2>2, <2>3
<1>10. GatesOrdered(g, calls) /\ Gathers(H, g, NewLayers(g, c))
  BY <1>1, <1>3, <1>7, <1>9 DEF AxisInv, Gathers
<1>11. GatesOrdered(H, calls + 1)
  BY <1>1, <1>2, <1>5, <1>10, GrownOrdered
<1>12. ASSUME fails = 0 PROVE GatesContiguous(H)
  <2>1. GatesContiguous(g) /\ c # <<>>
    BY <1>1, <1>3, <1>12 DEF AxisInv, Build
  <2>2. /\ \A i \in 1..Len(g) : \E j \in 1..Len(G) : G[j] = g[i]
        /\ \A i \in 1..Len(new) : \E j \in 1..Len(G) : G[j] = new[i]
    BY <1>1, <1>2, <1>4, <1>5, <1>7, GrownHolds, ZenonT(60)
  <2>3. ASSUME NEW a, \A i \in 1..Len(a) : \E j \in 1..Len(G) : G[j] = a[i]
        PROVE  HasGates(H, a)
    <3>1. ASSUME NEW i \in 1..Len(a) PROVE \E j \in DOMAIN H : H[j].gate = a[i].gate
      <4>1. PICK j \in 1..k : G[j] = a[i]
        BY <1>8, <2>3
      <4>2. H[j].gate = G[j].gate /\ j \in DOMAIN H
        BY <1>6, <1>8
      <4>3. QED
        BY <4>1, <4>2
    <3>2. QED
      BY <3>1 DEF HasGates
  <2>4. HasGates(H, g) /\ HasGates(H, NewLayers(g, c))
    BY <1>7, <2>2, <2>3
  <2>5. QED
    BY <1>1, <1>2, <1>5, <1>10, <2>1, <2>4, GrownContiguous
<1>13. QED
  BY <1>1, <1>6, <1>11, <1>12

(* The axis *)

\* Two mappings are one if they agree layer by layer.
LEMMA SameMapping ==
  ASSUME NEW g \in Seq(Layers), NEW s \in Seq(Layers), Len(g) = Len(s)
  PROVE  ParameterMapping(g) = [i \in DOMAIN s |-> s[i].angle]
           <=> \A i \in 1..Len(s) : g[(Len(s) + 1) - i].angle = s[i].angle
<1>1. PICK n \in Nat : n = Len(s) /\ n = Len(g) /\ DOMAIN s = 1..n /\ DOMAIN g = 1..n
  BY LenProperties
<1>2. ParameterMapping(g) = [i \in 1..n |-> g[(n + 1) - i].angle]
  BY <1>1 DEF ParameterMapping
<1>3. PICK f : f = [i \in 1..n |-> g[(n + 1) - i].angle]
  OBVIOUS
<1>4. PICK h : h = [i \in 1..n |-> s[i].angle]
  OBVIOUS
<1>5. f = h <=> \A i \in 1..n : f[i] = h[i]
  BY <1>3, <1>4
<1>6. \A i \in 1..n : f[i] = g[(n + 1) - i].angle /\ h[i] = s[i].angle
  BY <1>3, <1>4
<1>7. QED
  BY <1>1, <1>2, <1>3, <1>4, <1>5, <1>6

\* Until a call fails, the equivalent circuit has the layers of the graph backwards.
LEMMA SingleLayers ==
  ASSUME ReplayInv, AxisInv, fails = 0, NEW p \in Parts
  PROVE  /\ single \in Seq(Layers) /\ Len(graph[p]) = Len(single)
         /\ \A i \in 1..Len(single) : /\ graph[p][(Len(single) + 1) - i].angle = single[i].angle
                                      /\ graph[p][(Len(single) + 1) - i].of = single[i].of
<1>1. PICK A : single \in Seq(LayerOf(A))
  BY SingleIs
<1>2. PICK g \in Seq(Layers) : g = graph[p]
  BY DEF ReplayInv, SessionTypeOK
<1>3. PICK n \in Nat : n = Len(g) /\ DOMAIN g = 1..n
  BY LenProperties
<1>4. PICK a : a = [i \in DOMAIN single |-> single[i].angle]
  OBVIOUS
<1>5. PICK f : f = [i \in 1..n |-> g[(n + 1) - i].angle]
  OBVIOUS
<1>6. f = a
  <2>1. ParameterMapping(graph[p]) = a
    BY <1>4 DEF AxisInv
  <2>2. ParameterMapping(g) = f
    BY <1>3, <1>5 DEF ParameterMapping
  <2>3. QED
    BY <1>2, <2>1, <2>2
<1>7. DOMAIN single = 1..n
  BY <1>4, <1>5, <1>6
<1>8. Len(single) = n
  BY <1>1, <1>7, LenProperties
<1>9. ASSUME NEW i \in 1..n PROVE g[(n + 1) - i].angle = single[i].angle
  BY <1>4, <1>5, <1>6, <1>7
<1>10. ASSUME NEW i \in 1..n PROVE single[i] \in Layers
  <2>1. (n + 1) - i \in 1..n
    OBVIOUS
  <2>2. g[(n + 1) - i] \in Layers
    BY <1>3, <2>1, ElementOfSeq
  <2>3. single[i].angle \in Nat
    BY <1>9, <2>2 DEF Layers
  <2>4. single[i] \in LayerOf(A)
    BY <1>1, <1>8, ElementOfSeq
  <2>5. QED
    BY <2>3, <2>4 DEF Layers, LayerOf, Rotation
<1>11. single \in Seq(Layers)
  <2>1. single = [i \in 1..n |-> single[i]]
    BY <1>1, <1>7, LenProperties
  <2>2. single \in [1..n -> Layers]
    BY <1>10, <2>1
  <2>3. QED
    BY <2>2, SeqDef
<1>12. ASSUME NEW i \in 1..n PROVE g[(n + 1) - i].of = single[i].of
  <2>1. Rotations(g) = Reverse(Rotations(single))
    BY <1>2 DEF ReplayInv, OrderInv
  <2>2. PICK s \in Seq(Rotation) : s = Rotations(single) /\ Len(s) = n /\ \A k \in 1..n : s[k] = single[k].of
    BY <1>1, <1>8, RotationsType
  <2>3. PICK r \in Seq(Rotation) : r = Rotations(g) /\ Len(r) = n /\ \A k \in 1..n : r[k] = g[k].of
    BY <1>3, LayersAre, RotationsType
  <2>4. \A k \in 1..n : Reverse(s)[k] = s[(n - k) + 1]
    <3>1. \A k \in 1..Len(s) : Reverse(s)[k] = s[(Len(s) - k) + 1]
      BY ReverseProperties
    <3>2. QED
      BY <2>2, <3>1
  <2>5. r = Reverse(s)
    BY <2>1, <2>2, <2>3
  <2>6. PICK k \in 1..n : k = (n + 1) - i /\ (n - k) + 1 = i
    OBVIOUS
  <2>7. QED
    BY <2>2, <2>3, <2>4, <2>5, <2>6
<1>13. QED
  BY <1>2, <1>3, <1>8, <1>9, <1>11, <1>12

\* Circuit.__add__, gate by gate.
LEMMA ConcatenateAt ==
  ASSUME NEW l \in Seq(Layers), NEW r \in Seq(Layers)
  PROVE  /\ Concatenate(l, r) \in Seq(Layers)
         /\ Len(Concatenate(l, r)) = Len(l) + Len(r)
         /\ \A i \in 1..Len(l) : Concatenate(l, r)[i].angle = l[i].angle
         /\ \A i \in 1..Len(r) :
              Concatenate(l, r)[Len(l) + i].angle = r[i].angle + NParameters(l)
<1>1. PICK m \in Nat, n \in Nat : m = Len(l) /\ n = Len(r) /\ DOMAIN l = 1..m /\ DOMAIN r = 1..n
  BY LenProperties
<1>2. PICK k \in Nat : k = NParameters(l)
  <2>1. \A i \in 1..m : l[i].angle \in Nat
    <3>1. \A i \in 1..m : l[i] \in Layers
      BY <1>1, ElementOfSeq
    <3>2. QED
      BY <3>1 DEF Layers
  <2>2. l = <<>> <=> m = 0
    BY <1>1, EmptySeq
  <2>3. QED
    BY <1>1, <2>1, <2>2, NParametersType
<1>3. PICK h : h = [i \in 1..n |-> [r[i] EXCEPT !.angle = @ + k]]
  OBVIOUS
<1>4. ASSUME NEW i \in 1..n PROVE h[i] \in Layers /\ h[i].angle = r[i].angle + k
  <2>1. PICK q \in Layers : q = r[i]
    BY <1>1, ElementOfSeq
  <2>2. PICK a \in Nat : a = q.angle + k
    BY DEF Layers
  <2>3. h[i] = [q EXCEPT !.angle = a]
    BY <1>3, <2>1, <2>2
  <2>4. QED
    BY <2>1, <2>2, <2>3 DEF Layers
<1>5. h \in Seq(Layers) /\ Len(h) = n
  <2>1. h \in [1..n -> Layers]
    BY <1>3, <1>4
  <2>2. QED
    BY <2>1, SeqDef
<1>6. Concatenate(l, r) = l \o h
  BY <1>1, <1>2, <1>3 DEF Concatenate
<1>7. PICK t \in Seq(Layers) : /\ t = l \o h /\ Len(t) = m + n
                               /\ \A i \in 1..(m + n) : t[i] = IF i <= m THEN l[i] ELSE h[i - m]
  <2>1. /\ l \o h \in Seq(Layers) /\ Len(l \o h) = m + n
        /\ \A i \in 1..(m + n) : (l \o h)[i] = IF i <= m THEN l[i] ELSE h[i - m]
    BY <1>1, <1>5, ConcatOfLengths, SMTT(60)
  <2>2. QED
    BY <2>1
<1>8. ASSUME NEW i \in 1..m PROVE t[i].angle = l[i].angle
  <2>1. i \in 1..(m + n) /\ i <= m
    OBVIOUS
  <2>2. QED
    BY <1>7, <2>1
<1>9. ASSUME NEW i \in 1..n PROVE t[m + i].angle = r[i].angle + k
  <2>1. PICK j \in 1..(m + n) : j = m + i /\ ~(j <= m) /\ j - m = i
    OBVIOUS
  <2>2. t[j] = h[i]
    BY <1>7, <2>1
  <2>3. QED
    BY <1>4, <2>1, <2>2
<1>10. QED
  BY <1>1, <1>2, <1>6, <1>7, <1>8, <1>9

\* The angles of layers are below their number of parameters, which one of them reaches.
LEMMA LayerParameters ==
  ASSUME NEW s \in Seq(Layers)
  PROVE  /\ NParameters(s) \in Nat
         /\ \A i \in 1..Len(s) : s[i].angle \in Nat /\ s[i].angle < NParameters(s)
         /\ Len(s) # 0 => /\ NParameters(s) # 0
                          /\ \E i \in 1..Len(s) : s[i].angle + 1 = NParameters(s)
         /\ Len(s) = 0 => NParameters(s) = 0
<1>1. PICK n \in Nat : n = Len(s) /\ DOMAIN s = 1..n
  BY LenProperties
<1>2. \A i \in 1..n : s[i].angle \in Nat
  <2>1. \A i \in 1..n : s[i] \in Layers
    BY <1>1, ElementOfSeq
  <2>2. QED
    BY <2>1 DEF Layers
<1>3. CASE n = 0
  <2>1. s = <<>>
    BY <1>1, <1>3, EmptySeq
  <2>2. NParameters(s) = 0
    BY <2>1, NoGates
  <2>3. QED
    BY <1>1, <1>3, <2>2
<1>4. CASE n # 0
  <2>1. s # <<>> /\ n \in Nat \ {0}
    BY <1>1, <1>4, EmptySeq
  <2>2. /\ NParameters(s) \in Nat \ {0}
        /\ \A i \in 1..n : s[i].angle < NParameters(s)
        /\ \E i \in 1..n : s[i].angle + 1 = NParameters(s)
    BY <1>1, <1>2, <2>1, LargestAngle
  <2>3. QED
    BY <1>1, <1>2, <1>4, <2>2
<1>5. QED
  BY <1>3, <1>4

\* A bound on the angles of layers that one of them reaches.
LEMMA LayerParametersAre ==
  ASSUME NEW s \in Seq(Layers), NEW top \in Nat, \A i \in 1..Len(s) : s[i].angle < top,
         NEW i \in 1..Len(s), s[i].angle + 1 = top
  PROVE  NParameters(s) = top
<1>1. /\ NParameters(s) \in Nat
      /\ \A j \in 1..Len(s) : s[j].angle \in Nat /\ s[j].angle < NParameters(s)
  BY LayerParameters
<1>2. Len(s) # 0
  BY LenProperties
<1>3. PICK j \in 1..Len(s) : s[j].angle + 1 = NParameters(s)
  BY <1>2, LayerParameters
<1>4. PICK a \in Nat, b \in Nat, m \in Nat :
        /\ a = s[i].angle /\ b = s[j].angle /\ m = NParameters(s)
        /\ a < m /\ b < top /\ a + 1 = top /\ b + 1 = m
  BY <1>1, <1>3
<1>5. m = top
  BY <1>4
<1>6. QED
  BY <1>4, <1>5

\* The parameters of two circuits in turn are those of both.
LEMMA ConcatenateParameters ==
  ASSUME NEW l \in Seq(Layers), NEW r \in Seq(Layers)
  PROVE  NParameters(Concatenate(l, r)) = NParameters(l) + NParameters(r)
<1>1. PICK m \in Nat, n \in Nat : m = Len(l) /\ n = Len(r)
  BY LenProperties
<1>2. PICK t \in Seq(Layers) : t = Concatenate(l, r)
  BY ConcatenateAt
<1>3. PICK a \in Nat, b \in Nat : a = NParameters(l) /\ b = NParameters(r)
  BY LayerParameters
<1>4. /\ Len(t) = m + n
      /\ \A i \in 1..m : t[i].angle = l[i].angle
      /\ \A i \in 1..n : t[m + i].angle = r[i].angle + a
  BY <1>1, <1>2, <1>3, ConcatenateAt, ZenonT(60)
<1>5. /\ \A i \in 1..m : l[i].angle \in Nat /\ l[i].angle < a
      /\ m # 0 => \E i \in 1..m : l[i].angle + 1 = a
      /\ m = 0 => a = 0
  BY <1>1, <1>3, LayerParameters
<1>6. /\ \A i \in 1..n : r[i].angle \in Nat /\ r[i].angle < b
      /\ n # 0 => \E i \in 1..n : r[i].angle + 1 = b
      /\ n = 0 => b = 0
  BY <1>1, <1>3, LayerParameters
<1>7. ASSUME NEW j \in 1..(m + n) PROVE t[j].angle < a + b
  <2>1. CASE j <= m
    <3>1. j \in 1..m
      BY <2>1
    <3>2. PICK q \in Nat : q = l[j].angle /\ q < a
      BY <1>5, <3>1
    <3>3. QED
      BY <1>4, <3>1, <3>2
  <2>2. CASE ~(j <= m)
    <3>1. PICK i \in 1..n : m + i = j
      <4>1. j - m \in 1..n /\ m + (j - m) = j
        BY <2>2
      <4>2. QED
        BY <4>1
    <3>2. PICK q \in Nat : q = r[i].angle /\ q < b
      BY <1>6
    <3>3. t[m + i].angle = q + a
      BY <1>4, <3>2
    <3>4. q + a < a + b
      BY <3>2
    <3>5. QED
      BY <3>1, <3>3, <3>4
  <2>3. QED
    BY <2>1, <2>2
<1>8. CASE n # 0
  <2>1. PICK i \in 1..n : r[i].angle + 1 = b
    BY <1>6, <1>8
  <2>2. PICK j \in 1..(m + n) : j = m + i
    OBVIOUS
  <2>3. PICK q \in Nat : q = r[i].angle /\ q + 1 = b
    BY <1>6, <2>1
  <2>4. t[j].angle + 1 = a + b
    <3>1. t[m + i].angle = q + a
      BY <1>4, <2>3
    <3>2. (q + a) + 1 = a + b
      BY <2>3
    <3>3. QED
      BY <2>2, <3>1, <3>2
  <2>5. a + b \in Nat /\ j \in 1..Len(t) /\ \A k \in 1..Len(t) : t[k].angle < a + b
    BY <1>4, <1>7
  <2>6. NParameters(t) = a + b
    BY <2>4, <2>5, LayerParametersAre
  <2>7. QED
    BY <1>2, <1>3, <2>6
<1>9. CASE n = 0 /\ m # 0
  <2>1. PICK i \in 1..m : l[i].angle + 1 = a
    BY <1>5, <1>9
  <2>2. b = 0 /\ i \in 1..(m + n) /\ t[i].angle = l[i].angle
    BY <1>4, <1>6, <1>9
  <2>3. a + b = a
    BY <2>2
  <2>4. a \in Nat /\ i \in 1..Len(t) /\ \A k \in 1..Len(t) : t[k].angle < a
    BY <1>4, <1>7, <2>2, <2>3
  <2>5. NParameters(t) = a
    BY <2>1, <2>2, <2>4, LayerParametersAre
  <2>6. QED
    BY <1>2, <1>3, <2>3, <2>5
<1>10. CASE n = 0 /\ m = 0
  <2>1. Len(t) = 0
    BY <1>4, <1>10
  <2>2. NParameters(t) = 0
    BY <2>1, LayerParameters
  <2>3. QED
    BY <1>2, <1>3, <1>5, <1>6, <1>10, <2>2
<1>11. QED
  BY <1>8, <1>9, <1>10

\* What the modulo does to an angle on an axis of n + k: the stored ones move up by
\* k, the new ones, which are behind n, wrap around to the front.
LEMMA Wraps ==
  ASSUME nParams \in Nat, NEW c, NParameters(c) \in Nat \ {0}, NEW a \in Nat
  PROVE  /\ schrodinger => Wrapped(c, a) = a
         /\ ~schrodinger /\ a < nParams => Wrapped(c, a) = a + NParameters(c)
         /\ ~schrodinger /\ a < NParameters(c) => Wrapped(c, a + nParams) = a
<1>0. PICK n \in Nat, k \in Nat \ {0} : n = nParams /\ k = NParameters(c)
  OBVIOUS
<1>1. CASE schrodinger \/ n = 0
  <2>1. \A b \in Nat : Wrapped(c, b) = b
    BY <1>0, <1>1 DEF Wrapped, RotatesAxis
  <2>2. n = 0 => a + n = a /\ ~(a < n)
    OBVIOUS
  <2>3. QED
    BY <1>0, <1>1, <2>1, <2>2
<1>2. CASE ~schrodinger /\ n # 0
  <2>1. \A b \in Nat : Wrapped(c, b) = (b + k) % (n + k)
    BY <1>0, <1>2 DEF Wrapped, RotatesAxis, Lifted
  <2>2. ASSUME a < n PROVE (a + k) % (n + k) = a + k
    <3>1. PICK m \in Nat \ {0}, b \in Nat : m = n + k /\ b = a + k /\ b < m
      BY <2>2
    <3>2. b % m = b
      BY <3>1
    <3>3. QED
      BY <3>1, <3>2
  <2>3. ASSUME a < k PROVE ((a + n) + k) % (n + k) = a
    <3>1. PICK m \in Nat \ {0} : m = n + k /\ (a + n) + k = a + m /\ a < m
      BY <2>3
    <3>2. (a + m) % m = a
      BY <3>1
    <3>3. QED
      BY <3>1, <3>2
  <2>4. Wrapped(c, a) = (a + k) % (n + k)
    BY <2>1
  <2>5. Wrapped(c, a + n) = ((a + n) + k) % (n + k)
    <3>1. a + n \in Nat
      OBVIOUS
    <3>2. QED
      BY <2>1, <3>1
  <2>6. QED
    BY <1>0, <1>2, <2>2, <2>3, <2>4, <2>5
<1>3. QED
  BY <1>1, <1>2

\* The mapping in optimizer order is that of the equivalent circuit again.
LEMMA BuildAngles ==
  ASSUME ReplayInv, AxisInv, fails = 0, NEW c \in Circuits, Build(c)
  PROVE  /\ nParams' = NParameters(single')
         /\ \A p \in Parts : ParameterMapping(graph'[p]) = [i \in DOMAIN single' |-> single'[i].angle]
<1>1. FirstPart \in Parts /\ calls \in Nat /\ c # <<>>
  BY CallFacts DEF Build
<1>2. PICK own \in Seq(Layers) : own = ExpandMonomials(c, calls + 1)
  BY <1>1, OwnRotations, LayersAre
<1>3. PICK k \in Nat \ {0} : /\ k = NParameters(c) /\ k = NParameters(own)
                             /\ \A i \in 1..Len(own) : own[i].angle \in Nat /\ own[i].angle < k
  <2>1. PICK call \in Nat : call = calls + 1
    BY <1>1
  <2>2. own = ExpandMonomials(c, call)
    BY <1>2, <2>1
  <2>3. /\ NParameters(c) \in Nat \ {0} /\ NParameters(own) = NParameters(c)
        /\ \A i \in 1..Len(own) : own[i].angle \in Nat /\ own[i].angle < NParameters(c)
    BY <1>1, <2>2, ExpandedParameters
  <2>4. QED
    BY <2>3
<1>4. PICK g \in Seq(Layers) : g = graph[FirstPart]
  BY <1>1, CallFacts DEF Build
<1>5. single \in Seq(Layers)
  BY <1>1, SingleLayers
<1>6. PICK l \in Nat, m \in Nat : l = Len(single) /\ m = Len(own)
  BY <1>2, <1>5, LenProperties
<1>7. Len(g) = l /\ \A i \in 1..l : g[(l + 1) - i].angle = single[i].angle
  BY <1>1, <1>4, <1>6, SingleLayers
<1>8. PICK n \in Nat : n = nParams /\ n = NParameters(single)
  BY <1>5, LayerParameters DEF AxisInv
<1>9. \A i \in 1..l : single[i].angle \in Nat /\ single[i].angle < n
  BY <1>5, <1>6, <1>8, LayerParameters
<1>10. PICK new \in Seq(Layers) : new = NewLayers(g, c)
  BY <1>1, <1>8, NewLayersType
<1>11. Len(new) = m /\ \A i \in 1..m : new[i].angle = own[i].angle + n
  BY <1>1, <1>2, <1>6, <1>8, <1>10, NewLayersAt
<1>12. PICK G \in Seq(Layers) : G = Grown(g, c, Len(NewLayers(g, c)))
  BY <1>4, BuildLayers
<1>13. PICK H \in Seq(Layers) :
         /\ \A p \in Parts : graph'[p] = H
         /\ Len(H) = Len(G)
         /\ \A j \in 1..Len(G) : H[j].angle = Wrapped(c, G[j].angle)
  <2>1. PICK H \in Seq(Layers) : (\A p \in Parts : graph'[p] = H) /\ Settled(H, G, c)
    BY <1>4, <1>12, BuildLayers
  <2>2. QED
    BY <2>1 DEF Settled
<1>14. /\ Len(G) = l + m
       /\ schrodinger => /\ \A j \in 1..m : G[j] = new[(m - j) + 1]
                         /\ \A j \in 1..l : G[m + j] = g[j]
       /\ ~schrodinger => /\ \A j \in 1..l : G[j] = g[j]
                          /\ \A j \in 1..m : G[l + j] = new[(m - j) + 1]
  <2>1. m \in 0..Len(NewLayers(g, c)) /\ G = Grown(g, c, m) /\ m = Len(NewLayers(g, c))
    BY <1>10, <1>11, <1>12
  <2>2. /\ Len(Grown(g, c, m)) = Len(g) + m
        /\ schrodinger => /\ \A i \in 1..m : Grown(g, c, m)[i] = NewLayers(g, c)[(m - i) + 1]
                          /\ \A i \in 1..Len(g) : Grown(g, c, m)[m + i] = g[i]
        /\ ~schrodinger =>
             /\ \A i \in 1..Len(g) : Grown(g, c, m)[i] = g[i]
             /\ \A i \in 1..m : Grown(g, c, m)[Len(g) + i] =
                                  NewLayers(g, c)[(Len(NewLayers(g, c)) - i) + 1]
    BY <1>1, <1>8, <2>1, GrownAt, ZenonT(60)
  <2>3. QED
    BY <1>7, <1>10, <2>1, <2>2

<1>15. PICK T \in Seq(Layers) :
         /\ T = single' /\ Len(T) = l + m /\ NParameters(T) = n + k
         /\ schrodinger => /\ \A i \in 1..l : T[i].angle = single[i].angle
                           /\ \A i \in 1..m : T[l + i].angle = own[i].angle + n
         /\ ~schrodinger => /\ \A i \in 1..m : T[i].angle = own[i].angle
                            /\ \A i \in 1..l : T[m + i].angle = single[i].angle + k
  <2>1. CASE schrodinger
    <3>1. PICK T \in Seq(Layers) : T = Concatenate(single, own)
      BY <1>5, ConcatenateAt
    <3>2. single' = T
      BY <1>2, <2>1, <3>1 DEF Build
    <3>3. /\ Len(T) = l + m
          /\ \A i \in 1..l : T[i].angle = single[i].angle
          /\ \A i \in 1..m : T[l + i].angle = own[i].angle + n
      <4>1. /\ Len(Concatenate(single, own)) = Len(single) + Len(own)
            /\ \A i \in 1..Len(single) : Concatenate(single, own)[i].angle = single[i].angle
            /\ \A i \in 1..Len(own) : Concatenate(single, own)[Len(single) + i].angle
                                        = own[i].angle + NParameters(single)
        BY <1>5, ConcatenateAt
      <4>2. QED
        BY <1>6, <1>8, <3>1, <4>1
    <3>4. NParameters(T) = n + k
      BY <1>3, <1>5, <1>8, <3>1, ConcatenateParameters
    <3>5. QED
      BY <2>1, <3>2, <3>3, <3>4
  <2>2. CASE ~schrodinger
    <3>1. PICK T \in Seq(Layers) : T = Concatenate(own, single)
      BY <1>5, ConcatenateAt
    <3>2. single' = T
      BY <1>2, <2>2, <3>1 DEF Build
    <3>3. /\ Len(T) = m + l
          /\ \A i \in 1..m : T[i].angle = own[i].angle
          /\ \A i \in 1..l : T[m + i].angle = single[i].angle + k
      <4>1. /\ Len(Concatenate(own, single)) = Len(own) + Len(single)
            /\ \A i \in 1..Len(own) : Concatenate(own, single)[i].angle = own[i].angle
            /\ \A i \in 1..Len(single) : Concatenate(own, single)[Len(own) + i].angle
                                           = single[i].angle + NParameters(own)
        BY <1>5, ConcatenateAt
      <4>2. QED
        BY <1>3, <1>6, <3>1, <4>1
    <3>4. NParameters(T) = k + n
      BY <1>3, <1>5, <1>8, <3>1, ConcatenateParameters
    <3>5. m + l = l + m /\ k + n = n + k
      OBVIOUS
    <3>6. QED
      BY <2>2, <3>2, <3>3, <3>4, <3>5
  <2>3. QED
    BY <2>1, <2>2
<1>16. ASSUME NEW a \in Nat
       PROVE  /\ schrodinger => Wrapped(c, a) = a
              /\ ~schrodinger /\ a < n => Wrapped(c, a) = a + k
              /\ ~schrodinger /\ a < k => Wrapped(c, a + n) = a
  BY <1>3, <1>8, Wraps, ZenonT(60)
<1>17. ASSUME schrodinger, NEW j \in 1..(l + m)
       PROVE  H[((l + m) + 1) - j].angle = T[j].angle
  <2>1. CASE j <= l
    <3>1. PICK i \in 1..l : i = (l + 1) - j /\ m + i = ((l + m) + 1) - j /\ m + i \in 1..(l + m)
      BY <2>1
    <3>2. H[m + i].angle = Wrapped(c, g[i].angle) /\ g[i].angle = single[j].angle
      BY <1>7, <1>13, <1>14, <1>17, <2>1, <3>1
    <3>3. single[j].angle \in Nat
      BY <1>9, <2>1
    <3>4. T[j].angle = single[j].angle
      BY <1>15, <1>17, <2>1
    <3>5. QED
      BY <1>16, <1>17, <3>1, <3>2, <3>3, <3>4
  <2>2. CASE ~(j <= l)
    <3>1. PICK q \in 1..m : l + q = j
      <4>1. j - l \in 1..m /\ l + (j - l) = j
        BY <2>2
      <4>2. QED
        BY <4>1
    <3>2. PICK i \in 1..m : i = ((l + m) + 1) - j /\ (m - i) + 1 = q /\ i \in 1..(l + m)
      BY <3>1
    <3>3. H[i].angle = Wrapped(c, new[q].angle) /\ new[q].angle = own[q].angle + n
      <4>1. G[i] = new[q]
        BY <1>14, <1>17, <3>2
      <4>2. H[i].angle = Wrapped(c, G[i].angle)
        BY <1>13, <1>14, <3>2
      <4>3. QED
        BY <1>11, <4>1, <4>2
    <3>4. T[j].angle = own[q].angle + n
      BY <1>15, <1>17, <3>1
    <3>5. own[q].angle + n \in Nat
      BY <1>3, <1>6, SMTT(60)
    <3>6. QED
      BY <1>16, <1>17, <3>2, <3>3, <3>4, <3>5
  <2>3. QED
    BY <2>1, <2>2
<1>18. ASSUME ~schrodinger, NEW j \in 1..(l + m)
       PROVE  H[((l + m) + 1) - j].angle = T[j].angle
  <2>1. CASE j <= m
    <3>1. PICK i \in 1..m : /\ i = (m + 1) - j /\ l + i = ((l + m) + 1) - j
                            /\ (m - i) + 1 = j /\ l + i \in 1..(l + m)
      BY <2>1
    <3>2. H[l + i].angle = Wrapped(c, new[j].angle) /\ new[j].angle = own[j].angle + n
      <4>1. G[l + i] = new[(m - i) + 1]
        BY <1>14, <1>18
      <4>2. H[l + i].angle = Wrapped(c, G[l + i].angle)
        BY <1>13, <1>14, <3>1
      <4>3. new[j].angle = own[j].angle + n
        BY <1>11, <2>1
      <4>4. QED
        BY <3>1, <4>1, <4>2, <4>3
    <3>3. own[j].angle \in Nat /\ own[j].angle < k
      BY <1>3, <1>6, <2>1
    <3>4. T[j].angle = own[j].angle
      BY <1>15, <1>18, <2>1
    <3>5. Wrapped(c, own[j].angle + n) = own[j].angle
      BY <1>16, <1>18, <3>3
    <3>6. QED
      BY <3>1, <3>2, <3>4, <3>5
  <2>2. CASE ~(j <= m)
    <3>1. PICK q \in 1..l : m + q = j
      <4>1. j - m \in 1..l /\ m + (j - m) = j
        BY <2>2
      <4>2. QED
        BY <4>1
    <3>2. PICK i \in 1..l : i = (l + 1) - q /\ i = ((l + m) + 1) - j /\ i \in 1..(l + m)
      BY <3>1
    <3>3. H[i].angle = Wrapped(c, g[i].angle) /\ g[i].angle = single[q].angle
      BY <1>7, <1>13, <1>14, <1>18, <3>2
    <3>4. single[q].angle \in Nat /\ single[q].angle < n
      BY <1>9
    <3>5. T[j].angle = single[q].angle + k
      BY <1>15, <1>18, <3>1
    <3>6. Wrapped(c, single[q].angle) = single[q].angle + k
      BY <1>16, <1>18, <3>4
    <3>7. QED
      BY <3>2, <3>3, <3>5, <3>6
  <2>3. QED
    BY <2>1, <2>2
<1>19. ParameterMapping(H) = [i \in DOMAIN T |-> T[i].angle]
  <2>1. Len(H) = Len(T) /\ \A i \in 1..Len(T) : H[(Len(T) + 1) - i].angle = T[i].angle
    BY <1>13, <1>14, <1>15, <1>17, <1>18
  <2>2. QED
    BY <2>1, SameMapping
<1>20. nParams' = n + k
  BY <1>3, <1>8 DEF Build
<1>21. QED
  BY <1>13, <1>15, <1>19, <1>20

(* The seed *)

\* The seed vector has, at each place of the axis before the layers are moved, the
\* place they are moved to.
LEMMA SeedVectorAt ==
  ASSUME nParams \in Nat, NEW c, NParameters(c) \in Nat \ {0}
  PROVE  /\ SeedVector(c) \in Seq(Nat) /\ Len(SeedVector(c)) = nParams + NParameters(c)
         /\ \A a \in Nat : a < nParams + NParameters(c) => SeedVector(c)[a + 1] = Wrapped(c, a)
<1>1. PICK n \in Nat, k \in Nat \ {0} : n = nParams /\ k = NParameters(c)
  OBVIOUS
<1>2. PICK s \in Seq(Nat) : s = UserSeed(c) /\ Len(s) = n + k /\ \A i \in 1..(n + k) : s[i] = i - 1
  <2>1. [i \in 1..(n + k) |-> i - 1] \in Seq(Nat)
    OBVIOUS
  <2>2. Len([i \in 1..(n + k) |-> i - 1]) = n + k
    BY <2>1, LenProperties
  <2>3. UserSeed(c) = [i \in 1..(n + k) |-> i - 1]
    BY <1>1 DEF UserSeed
  <2>4. QED
    BY <2>1, <2>2, <2>3
<1>3. CASE ~RotatesAxis(c)
  <2>1. SeedVector(c) = s
    BY <1>2, <1>3 DEF SeedVector
  <2>2. ASSUME NEW a \in Nat, a < n + k PROVE s[a + 1] = Wrapped(c, a)
    <3>1. a + 1 \in 1..(n + k) /\ (a + 1) - 1 = a
      BY <2>2
    <3>2. QED
      BY <1>2, <1>3, <3>1 DEF Wrapped
  <2>3. QED
    BY <1>1, <1>2, <2>1, <2>2
<1>4. CASE RotatesAxis(c)
  <2>1. SeedVector(c) = SubSeq(s, k + 1, n + k) \o SubSeq(s, 1, k)
    BY <1>1, <1>2, <1>4 DEF SeedVector, Rotate
  <2>2. PICK u \in Seq(Nat) : /\ u = SubSeq(s, k + 1, n + k) /\ Len(u) = n
                              /\ \A i \in 1..n : u[i] = (k + i) - 1
    <3>1. \A i \in (k + 1)..(n + k) : s[i] \in Nat
      BY <1>2
    <3>2. PICK from \in Int, to \in Int : from = k + 1 /\ to = n + k /\ from <= to + 1
      OBVIOUS
    <3>3. /\ SubSeq(s, from, to) \in Seq(Nat)
          /\ Len(SubSeq(s, from, to)) = IF from <= to THEN (to - from) + 1 ELSE 0
          /\ \A i \in 1..((to - from) + 1) : SubSeq(s, from, to)[i] = s[(from + i) - 1]
      BY <3>1, <3>2, SubSeqProperties
    <3>4. (to - from) + 1 = n /\ (from <= to <=> n # 0)
      BY <3>2
    <3>5. ASSUME NEW i \in 1..n PROVE s[(from + i) - 1] = (k + i) - 1
      <4>1. (from + i) - 1 = k + i /\ k + i \in 1..(n + k)
        BY <3>2
      <4>2. QED
        BY <1>2, <4>1
    <3>6. PICK u \in Seq(Nat) : /\ u = SubSeq(s, from, to) /\ Len(u) = n
                                /\ \A i \in 1..n : u[i] = s[(from + i) - 1]
      <4>1. Len(SubSeq(s, from, to)) = n
        BY <3>3, <3>4
      <4>2. QED
        BY <3>3, <3>4, <4>1
    <3>7. \A i \in 1..n : u[i] = (k + i) - 1
      BY <3>5, <3>6
    <3>8. QED
      BY <3>2, <3>6, <3>7
  <2>3. PICK v \in Seq(Nat) : /\ v = SubSeq(s, 1, k) /\ Len(v) = k /\ \A i \in 1..k : v[i] = i - 1
    <3>1. \A i \in 1..k : s[i] \in Nat
      BY <1>2
    <3>2. k \in Int /\ 1 <= k + 1
      OBVIOUS
    <3>3. /\ SubSeq(s, 1, k) \in Seq(Nat)
          /\ Len(SubSeq(s, 1, k)) = IF 1 <= k THEN (k - 1) + 1 ELSE 0
          /\ \A i \in 1..((k - 1) + 1) : SubSeq(s, 1, k)[i] = s[(1 + i) - 1]
      BY <3>1, <3>2, SubSeqProperties
    <3>4. ASSUME NEW i \in 1..k PROVE i \in 1..((k - 1) + 1) /\ s[(1 + i) - 1] = i - 1
      <4>1. (1 + i) - 1 = i /\ i \in 1..(n + k) /\ i \in 1..((k - 1) + 1)
        OBVIOUS
      <4>2. QED
        BY <1>2, <4>1
    <3>5. PICK v \in Seq(Nat) : /\ v = SubSeq(s, 1, k) /\ Len(v) = k
                                /\ \A i \in 1..k : v[i] = s[(1 + i) - 1]
      <4>1. Len(SubSeq(s, 1, k)) = k
        BY <3>3
      <4>2. QED
        BY <3>3, <3>4, <4>1
    <3>6. \A i \in 1..k : v[i] = i - 1
      BY <3>4, <3>5
    <3>7. QED
      BY <3>5, <3>6
  <2>4. PICK w \in Seq(Nat) : /\ w = SeedVector(c) /\ Len(w) = n + k
                              /\ \A i \in 1..(n + k) : w[i] = IF i <= n THEN u[i] ELSE v[i - n]
    <3>1. /\ u \o v \in Seq(Nat) /\ Len(u \o v) = n + k
          /\ \A i \in 1..(n + k) : (u \o v)[i] = IF i <= n THEN u[i] ELSE v[i - n]
      <4>1. Len(u) = n /\ Len(v) = k
        BY <2>2, <2>3
      <4>2. /\ u \o v \in Seq(Nat) /\ Len(u \o v) = Len(u) + Len(v)
            /\ \A i \in 1..(Len(u) + Len(v)) : (u \o v)[i] = IF i <= Len(u) THEN u[i] ELSE v[i - Len(u)]
        BY ConcatProperties
      <4>3. QED
        BY <4>1, <4>2
    <3>2. QED
      BY <2>1, <2>2, <2>3, <3>1
  <2>5. ASSUME NEW a \in Nat, a < n + k PROVE w[a + 1] = Wrapped(c, a)
    <3>1. ~schrodinger
      BY <1>4 DEF RotatesAxis
    <3>2. CASE a < n
      <4>1. a + 1 \in 1..(n + k) /\ a + 1 <= n /\ a + 1 \in 1..n /\ (k + (a + 1)) - 1 = a + k
        BY <3>2
      <4>2. w[a + 1] = a + k
        BY <2>2, <2>4, <4>1
      <4>3. Wrapped(c, a) = a + k
        BY <1>1, <3>1, <3>2, Wraps
      <4>4. QED
        BY <4>2, <4>3
    <3>3. CASE ~(a < n)
      <4>1. PICK b \in Nat : b + n = a /\ b < k
        <5>1. a - n \in Nat /\ (a - n) + n = a /\ a - n < k
          BY <2>5, <3>3
        <5>2. QED
          BY <5>1
      <4>2. /\ a + 1 \in 1..(n + k) /\ ~(a + 1 <= n) /\ (a + 1) - n = b + 1
            /\ b + 1 \in 1..k /\ (b + 1) - 1 = b
        BY <4>1
      <4>3. w[a + 1] = b
        BY <2>3, <2>4, <4>2
      <4>4. Wrapped(c, b + n) = b
        BY <1>1, <3>1, <4>1, Wraps
      <4>5. QED
        BY <4>1, <4>3, <4>4
    <3>4. QED
      BY <3>2, <3>3
  <2>6. QED
    BY <1>1, <2>4, <2>5
<1>5. QED
  BY <1>3, <1>4

\* Every layer is contracted at the value of its place on the axis after the call: the
\* stored ones by a prefix of the seed that reaches their angles, the new ones by all of it.
LEMMA SeededLayers ==
  ASSUME NEW c \in Circuits, c # <<>>, NEW g \in Seq(Layers), nParams \in Nat, calls \in Nat,
         Len(UserSeed(c)) >= NumParams(g)
  PROVE  SeededAt(g, c) =
           {<<g[l].of, Wrapped(c, g[l].angle)>> : l \in 1..Len(g)}
             \union {<<NewLayers(g, c)[i].of, Wrapped(c, NewLayers(g, c)[i].angle)>> :
                       i \in 1..Len(NewLayers(g, c))}
<1>1. PICK own : own = ExpandMonomials(c, calls + 1)
  OBVIOUS
<1>2. PICK n \in Nat, k \in Nat \ {0} : n = nParams /\ k = NParameters(c)
  <2>1. PICK call \in Nat : call = calls + 1
    OBVIOUS
  <2>2. NParameters(c) \in Nat \ {0}
    BY ExpandedParameters
  <2>3. QED
    BY <2>2
<1>3. \A i \in 1..Len(own) : own[i].angle \in Nat /\ own[i].angle < k
  <2>1. PICK call \in Nat : call = calls + 1
    OBVIOUS
  <2>2. own = ExpandMonomials(c, call)
    BY <1>1, <2>1
  <2>3. \A i \in 1..Len(own) : own[i].angle \in Nat /\ own[i].angle < NParameters(c)
    BY <2>2, ExpandedParameters
  <2>4. QED
    BY <1>2, <2>3
<1>4. PICK new \in Seq(Layers) : new = NewLayers(g, c)
  BY NewLayersType
<1>5. Len(new) = Len(own) /\ \A i \in 1..Len(own) : new[i].angle = own[i].angle + n
  BY <1>1, <1>2, <1>4, NewLayersAt
<1>6. PICK s \in Seq(Nat) : /\ s = SeedVector(c) /\ Len(s) = n + k
                            /\ \A a \in Nat : a < n + k => s[a + 1] = Wrapped(c, a)
  <2>1. /\ SeedVector(c) \in Seq(Nat) /\ Len(SeedVector(c)) = nParams + NParameters(c)
        /\ \A a \in Nat : a < nParams + NParameters(c) => SeedVector(c)[a + 1] = Wrapped(c, a)
    BY <1>2, SeedVectorAt
  <2>2. QED
    BY <1>2, <2>1
<1>7. PICK b \in Nat : /\ b = NumParams(g) /\ b <= n + k
                       /\ \A l \in 1..Len(g) : g[l].angle \in Nat /\ g[l].angle < b
  <2>1. Len(UserSeed(c)) = n + k
    <3>1. UserSeed(c) = [i \in 1..(n + k) |-> i - 1]
      BY <1>2 DEF UserSeed
    <3>2. [i \in 1..(n + k) |-> i - 1] \in Seq(Nat)
      OBVIOUS
    <3>3. QED
      BY <3>1, <3>2, LenProperties
  <2>2. /\ NumParams(g) \in Nat
        /\ \A l \in 1..Len(g) : g[l].angle \in Nat /\ g[l].angle < NumParams(g)
    BY LayerParameters DEF NumParams
  <2>3. QED
    BY <2>1, <2>2
<1>8. PICK prefix : prefix = SubSeq(s, 1, b) /\ \A i \in 1..b : prefix[i] = s[i]
  <2>1. \A i \in 1..b : s[i] \in Nat
    <3>1. \A i \in 1..b : i \in 1..(n + k)
      BY <1>7
    <3>2. QED
      BY <1>6, <3>1, ElementOfSeq
  <2>2. PICK to \in Int : to = b
    OBVIOUS
  <2>3. \A i \in 1..((to - 1) + 1) : SubSeq(s, 1, to)[i] = s[(1 + i) - 1]
    BY <2>1, <2>2, SubSeqProperties
  <2>4. \A i \in 1..b : i \in 1..((to - 1) + 1) /\ (1 + i) - 1 = i
    BY <2>2
  <2>5. QED
    BY <2>2, <2>3, <2>4, ZenonT(60)
<1>9. ASSUME NEW l \in 1..Len(g) PROVE prefix[g[l].angle + 1] = Wrapped(c, g[l].angle)
  <2>1. PICK a \in Nat : a = g[l].angle /\ a < b
    BY <1>7
  <2>2. a + 1 \in 1..b /\ a < n + k
    BY <1>7, <2>1
  <2>3. QED
    BY <1>6, <1>8, <2>1, <2>2
<1>10. ASSUME NEW i \in 1..Len(new) PROVE s[new[i].angle + 1] = Wrapped(c, new[i].angle)
  <2>1. PICK a \in Nat : a = own[i].angle /\ a < k /\ new[i].angle = a + n
    BY <1>3, <1>5
  <2>2. a + n \in Nat /\ a + n < n + k
    BY <2>1, SMTT(60)
  <2>3. QED
    BY <1>6, <2>1, <2>2
<1>11. SeededAt(g, c) = {<<g[l].of, prefix[g[l].angle + 1]>> : l \in DOMAIN g}
                          \union {<<new[i].of, s[new[i].angle + 1]>> : i \in DOMAIN new}
  BY <1>4, <1>6, <1>7, <1>8 DEF SeededAt
<1>12. DOMAIN g = 1..Len(g) /\ DOMAIN new = 1..Len(new)
  BY LenProperties
<1>13. {<<g[l].of, prefix[g[l].angle + 1]>> : l \in DOMAIN g}
         = {<<g[l].of, Wrapped(c, g[l].angle)>> : l \in 1..Len(g)}
  BY <1>9, <1>12
<1>14. {<<new[i].of, s[new[i].angle + 1]>> : i \in DOMAIN new}
         = {<<new[i].of, Wrapped(c, new[i].angle)>> : i \in 1..Len(new)}
  BY <1>10, <1>12
<1>15. QED
  BY <1>4, <1>11, <1>13, <1>14

\* So a seeded build contracts at the user's point.
LEMMA BuildSeeds ==
  ASSUME ReplayInv, NEW c \in Circuits, Build(c)
  PROVE  SeedsAtUsersPoint'
<1>1. FirstPart \in Parts /\ calls \in Nat /\ nParams \in Nat /\ c # <<>>
  BY CallFacts DEF Build, ReplayInv, SessionTypeOK
<1>2. PICK g : g = graph[FirstPart]
  OBVIOUS
<1>3. PICK G : G = Grown(g, c, Len(NewLayers(g, c)))
  OBVIOUS
<1>4. g \in Seq(Layers) /\ G \in Seq(Layers)
  BY <1>2, <1>3, BuildLayers
<1>5. PICK H \in Seq(Layers) : (\A p \in Parts : graph'[p] = H) /\ Settled(H, G, c)
  BY <1>2, <1>3, BuildLayers
<1>6. SUFFICES ASSUME seeding' # {} PROVE seeding' = {<<l.of, l.angle>> : l \in Range(H)}
  BY <1>1, <1>5 DEF SeedsAtUsersPoint
<1>7. seeding' = SeededAt(g, c) /\ Len(UserSeed(c)) >= NumParams(g)
  BY <1>2, <1>6 DEF Build, SeedIsAccepted
<1>8. PICK new \in Seq(Layers) : new = NewLayers(g, c)
  BY <1>1, <1>4, NewLayersType
<1> DEFINE At(l) == <<l.of, Wrapped(c, l.angle)>>
<1>9. seeding' = {At(g[l]) : l \in 1..Len(g)} \union {At(new[i]) : i \in 1..Len(new)}
  <2>1. SeededAt(g, c) =
          {<<g[l].of, Wrapped(c, g[l].angle)>> : l \in 1..Len(g)}
            \union {<<NewLayers(g, c)[i].of, Wrapped(c, NewLayers(g, c)[i].angle)>> :
                      i \in 1..Len(NewLayers(g, c))}
    BY <1>1, <1>4, <1>7, SeededLayers
  <2>2. QED
    BY <1>7, <1>8, <2>1
<1>10. PICK k \in Nat : k = Len(G) /\ DOMAIN H = 1..k
  BY <1>4, <1>5, LenProperties DEF Settled
<1>11. \A j \in 1..k : <<H[j].of, H[j].angle>> = At(G[j])
  BY <1>5, <1>10 DEF Settled
<1>12. {<<l.of, l.angle>> : l \in Range(H)} = {<<H[j].of, H[j].angle>> : j \in 1..k}
  BY <1>10 DEF Range
<1>13. {<<H[j].of, H[j].angle>> : j \in 1..k} = {At(G[j]) : j \in 1..k}
  BY <1>11
<1>14. \A j \in 1..k : (\E i \in 1..Len(g) : G[j] = g[i]) \/ (\E i \in 1..Len(new) : G[j] = new[i])
  <2>1. PICK m \in Nat : m = Len(new) /\ m \in 0..Len(NewLayers(g, c)) /\ G = Grown(g, c, m)
    BY <1>3, <1>8, LenProperties
  <2>2. \A j \in 1..Len(Grown(g, c, m)) :
          \/ \E i \in 1..Len(g) : Grown(g, c, m)[j] = g[i]
          \/ \E i \in 1..Len(NewLayers(g, c)) : Grown(g, c, m)[j] = NewLayers(g, c)[i]
    BY <1>1, <1>4, <2>1, GrownFrom
  <2>3. QED
    BY <1>8, <1>10, <2>1, <2>2
<1>15. /\ \A i \in 1..Len(g) : \E j \in 1..k : G[j] = g[i]
       /\ \A i \in 1..Len(new) : \E j \in 1..k : G[j] = new[i]
  BY <1>1, <1>3, <1>4, <1>8, <1>10, GrownHolds, ZenonT(60)
<1>16. {At(G[j]) : j \in 1..k} = {At(g[l]) : l \in 1..Len(g)} \union {At(new[i]) : i \in 1..Len(new)}
  <2> HIDE DEF At
  <2>1. ASSUME NEW x \in {At(G[j]) : j \in 1..k}
        PROVE  x \in {At(g[l]) : l \in 1..Len(g)} \union {At(new[i]) : i \in 1..Len(new)}
    <3>1. PICK j \in 1..k : x = At(G[j])
      OBVIOUS
    <3>2. CASE \E i \in 1..Len(g) : G[j] = g[i]
      BY <3>1, <3>2
    <3>3. CASE \E i \in 1..Len(new) : G[j] = new[i]
      BY <3>1, <3>3
    <3>4. QED
      BY <1>14, <3>2, <3>3
  <2>2. ASSUME NEW x \in {At(g[l]) : l \in 1..Len(g)} PROVE x \in {At(G[j]) : j \in 1..k}
    <3>1. PICK l \in 1..Len(g) : x = At(g[l])
      OBVIOUS
    <3>2. PICK j \in 1..k : G[j] = g[l]
      BY <1>15
    <3>3. QED
      BY <3>1, <3>2
  <2>3. ASSUME NEW x \in {At(new[i]) : i \in 1..Len(new)} PROVE x \in {At(G[j]) : j \in 1..k}
    <3>1. PICK i \in 1..Len(new) : x = At(new[i])
      OBVIOUS
    <3>2. PICK j \in 1..k : G[j] = new[i]
      BY <1>15
    <3>3. QED
      BY <3>1, <3>2
  <2>4. QED
    BY <2>1, <2>2, <2>3
<1>17. QED
  <2> HIDE DEF At
  <2>1. QED
    BY <1>9, <1>12, <1>13, <1>16

\* build_graph as a whole.
LEMMA BuildKeepsAxis ==
  ASSUME ReplayInv, AxisInv, NEW c \in Circuits, Build(c)
  PROVE  AxisInv'
<1>1. /\ \A p \in Parts : GatesOrdered(graph'[p], calls')
      /\ fails = 0 => \A p \in Parts : GatesContiguous(graph'[p])
  BY BuildGates
<1>2. fails' = fails
  BY DEF Build, Completes
<1>3. ASSUME fails = 0
      PROVE  /\ nParams' = NParameters(single')
             /\ \A p \in Parts : ParameterMapping(graph'[p]) = [i \in DOMAIN single' |-> single'[i].angle]
  BY <1>3, BuildAngles
<1>4. SeedsAtUsersPoint'
  BY BuildSeeds
<1>5. QED
  BY <1>1, <1>2, <1>3, <1>4 DEF AxisInv

------------------------------------------------------------------------------
(***************************************************************************)
(* The other calls                                                         *)
(***************************************************************************)

\* After a failure only the gates' order is promised any more.
LEMMA BrokenAxis ==
  ASSUME ReplayInv, BreaksOff, \A p \in Parts : GatesOrdered(graph'[p], calls')
  PROVE  AxisInv'
<1>1. fails' # 0
  BY DEF ReplayInv, SessionTypeOK, BreaksOff
<1>2. QED
  BY <1>1 DEF AxisInv, SeedsAtUsersPoint

\* A gate loop that was left has appended some of its layers.
LEMMA BuildFailsKeepsAxis ==
  ASSUME ReplayInv, AxisInv, NEW c \in Circuits, BuildFails(c)
  PROVE  AxisInv'
<1>1. /\ \A p \in Parts : graph[p] \in Seq(Layers)
      /\ calls \in Nat /\ calls' = calls + 1 /\ nParams \in Nat
  BY CallFacts DEF BuildFails, ReplayInv, SessionTypeOK
<1>2. PICK n \in 0..(Len(ExpandMonomials(c, calls + 1)) - 1) : \E ahead \in SUBSET Parts :
        /\ GateLoopFails(c, n, ahead)
        /\ graph' = [p \in Parts |-> Grown(graph[p], c, IF p \in ahead THEN n + 1 ELSE n)]
  BY DEF BuildFails
<1>3. ASSUME NEW p \in Parts PROVE GatesOrdered(graph'[p], calls + 1)
  <2>1. PICK g \in Seq(Layers) : g = graph[p] /\ GatesOrdered(g, calls)
    BY <1>1 DEF AxisInv
  <2>2. PICK m \in Nat : m = Len(ExpandMonomials(c, calls + 1)) /\ m = Len(NewLayers(g, c))
    <3>1. Len(NewLayers(g, c)) = Len(ExpandMonomials(c, calls + 1))
      BY <1>1, NewLayersType
    <3>2. Len(ExpandMonomials(c, calls + 1)) \in Nat
      BY <1>1, OwnRotations
    <3>3. QED
      BY <3>1, <3>2
  <2>3. PICK k \in {n, n + 1} : graph'[p] = Grown(g, c, k)
    BY <1>2, <2>1
  <2>4. k \in 0..Len(NewLayers(g, c))
    BY <2>2, <2>3
  <2>5. \A j \in 1..Len(Grown(g, c, k)) :
          \/ \E i \in 1..Len(g) : Grown(g, c, k)[j] = g[i]
          \/ \E i \in 1..Len(NewLayers(g, c)) : Grown(g, c, k)[j] = NewLayers(g, c)[i]
    BY <1>1, <2>4, GrownFrom
  <2>6. Grown(g, c, k) \in Seq(Layers)
    BY <1>1, <2>2, <2>4, GrownType
  <2>7. Gathers(Grown(g, c, k), g, NewLayers(g, c))
    <3>1. DOMAIN Grown(g, c, k) = 1..Len(Grown(g, c, k))
      BY <2>6, LenProperties
    <3>2. QED
      BY <2>5, <3>1 DEF Gathers
  <2>8. GatesOrdered(Grown(g, c, k), calls + 1)
    BY <1>1, <2>1, <2>7, GrownOrdered
  <2>9. QED
    BY <2>3, <2>8
<1>4. BreaksOff
  BY DEF BuildFails
<1>5. QED
  BY <1>1, <1>3, <1>4, BrokenAxis

\* Calls that leave the layers and the axis alone.
LEMMA SameAxis ==
  ASSUME ReplayInv, AxisInv, calls' \in Nat, calls <= calls', fails' = 0 => fails = 0,
         UNCHANGED <<graph, nParams, seeding, single>>
  PROVE  AxisInv'
<1>1. calls \in Nat /\ \A p \in Parts : graph[p] \in Seq(Layers)
  BY DEF ReplayInv, SessionTypeOK
<1>2. \A p \in Parts : GatesOrdered(graph'[p], calls')
  BY <1>1, OrderedLater DEF AxisInv
<1>3. SeedsAtUsersPoint'
  BY DEF AxisInv, SeedsAtUsersPoint
<1>4. QED
  BY <1>2, <1>3 DEF AxisInv

\* propagate, update_initial_operator and functional are such calls.
LEMMA OthersKeepAxis ==
  ASSUME ReplayInv, AxisInv,
         \/ \E c \in Circuits : Propagate(c) \/ PropagateFails(c)
         \/ \E owner \in SUBSET Parts : Reweight(owner)
         \/ \E pared \in Pared : MakeFunctional(pared)
         \/ UNCHANGED vars
  PROVE  AxisInv'
<1>1. calls \in Nat /\ fails \in Nat
  BY DEF ReplayInv, SessionTypeOK
<1>2. UNCHANGED <<graph, nParams, seeding, single>>
  BY DEF Propagate, PropagateFails, Reweight, MakeFunctional, engine, history, vars
<1>3. calls' = calls + 1 \/ calls' = calls
  BY DEF Propagate, PropagateFails, Reweight, MakeFunctional, Call, vars
<1>4. fails' = fails + 1 \/ fails' = fails
  BY DEF Propagate, PropagateFails, Reweight, MakeFunctional, Completes, BreaksOff, vars
<1>5. calls' \in Nat /\ calls <= calls' /\ (fails' = 0 => fails = 0)
  BY <1>1, <1>3, <1>4
<1>6. QED
  BY <1>2, <1>5, SameAxis

\* A contracted graph has no layers and no axis.
LEMMA ContractKeepsAxis ==
  ASSUME ReplayInv, AxisInv, NEW have \in BOOLEAN, Contract(have)
  PROVE  AxisInv'
<1>1. graph' = [p \in Parts |-> <<>>] /\ single' = <<>> /\ seeding' = {} /\ FirstPart \in Parts
  BY CallFacts DEF Contract
<1>2. \A p \in Parts : GatesOrdered(graph'[p], calls') /\ GatesContiguous(graph'[p])
  BY <1>1, OrderedEmpty
<1>3. nParams' = 0 /\ NParameters(single') = 0
  BY <1>1, NoGates DEF Contract, NumParams
<1>4. \A p \in Parts : ParameterMapping(graph'[p]) = [i \in DOMAIN single' |-> single'[i].angle]
  <2>1. <<>> \in Seq(Layers) /\ Len(<<>>) = 0
    BY EmptySeq
  <2>2. \A i \in 1..Len(<<>>) : <<>>[(Len(<<>>) + 1) - i].angle = <<>>[i].angle
    BY <2>1
  <2>3. ParameterMapping(<<>>) = [i \in DOMAIN <<>> |-> <<>>[i].angle]
    BY <2>1, <2>2, SameMapping
  <2>4. QED
    BY <1>1, <2>3
<1>5. SeedsAtUsersPoint'
  BY <1>1 DEF SeedsAtUsersPoint
<1>6. QED
  BY <1>2, <1>3, <1>4, <1>5 DEF AxisInv

\* The same when the replay throws.
LEMMA ContractFailsKeepsAxis ==
  ASSUME ReplayInv, AxisInv, ContractFails
  PROVE  AxisInv'
<1>1. graph' = [p \in Parts |-> <<>>] /\ BreaksOff
  BY DEF ContractFails
<1>2. \A p \in Parts : GatesOrdered(graph'[p], calls')
  BY <1>1, OrderedEmpty
<1>3. QED
  BY <1>1, <1>2, BrokenAxis

(* the parameter_mapping setter *)

\* Layers with the gates of others have as many gates, and as much order.
LEMMA SameGates ==
  ASSUME NEW g \in Seq(Layers), NEW h \in Seq(Layers), DOMAIN h = DOMAIN g,
         \A l \in DOMAIN g : h[l].of = g[l].of /\ h[l].gate = g[l].gate
  PROVE  /\ \A a : GatesOrdered(g, a) => GatesOrdered(h, a)
         /\ GatesContiguous(g) => GatesContiguous(h)
<1>1. ASSUME NEW a, GatesOrdered(g, a) PROVE GatesOrdered(h, a)
  BY <1>1 DEF GatesOrdered
<1>2. NGates(h) = NGates(g)
  <2>1. h = <<>> <=> g = <<>>
    BY LenProperties, EmptySeq
  <2>2. {h[l].gate : l \in DOMAIN h} = {g[l].gate : l \in DOMAIN g}
    OBVIOUS
  <2>3. QED
    BY <2>1, <2>2 DEF NGates
<1>3. ASSUME GatesContiguous(g) PROVE GatesContiguous(h)
  BY <1>2, <1>3 DEF GatesContiguous
<1>4. QED
  BY <1>1, <1>3

\* The equivalent circuit with another mapping.
Rewired(n, mapping) ==
  [i \in DOMAIN single |-> [single[i] EXCEPT !.angle =
     IF n = Len(single) THEN mapping[i] ELSE mapping[Authored(single[i].of) + 1]]]

\* The layers h and the circuit T have the angles of one mapping, and of all of it.
Share(h, T, n, mapping) ==
  /\ Len(h) = Len(T)
  /\ \A i \in 1..Len(T) : h[(Len(T) + 1) - i].angle = T[i].angle
  /\ \A i \in 1..Len(T) : \E q \in 1..n : T[i].angle = mapping[q]
  /\ \A q \in 1..n : \E i \in 1..Len(T) : T[i].angle = mapping[q]

\* A layer's angle comes from one place of the mapping, in the graph and in the
\* equivalent circuit, and every place is used.
LEMMA RewiredCircuit ==
  ASSUME ReplayInv, AxisInv, fails = 0, NEW g, g = graph[FirstPart],
         NEW n \in Nat \ {0}, n = Len(g) \/ n = NGates(g), NEW mapping \in Seq(Nat), Len(mapping) = n,
         NEW h, h = SetParameterMapping(g, mapping),
         NEW T, T = Rewired(n, mapping)
  PROVE  T \in Seq(Layers) /\ Share(h, T, n, mapping)
<1>1. FirstPart \in Parts /\ g \in Seq(Layers)
  BY SessionAssumption DEF ReplayInv, SessionTypeOK
<1>2. PICK l \in Nat : l = Len(single) /\ l = Len(g) /\ DOMAIN g = 1..l /\ DOMAIN single = 1..l
  BY <1>1, SingleLayers, LenProperties
<1>3. \A i \in 1..l : single[i] \in Layers /\ g[(l + 1) - i].of = single[i].of
  <2>1. single \in Seq(Layers)
    BY <1>1, SingleLayers
  <2>2. \A i \in 1..l : single[i] \in Layers
    BY <1>2, <2>1, ElementOfSeq
  <2>3. QED
    BY <1>1, <1>2, <2>2, SingleLayers
<1>4. GatesOrdered(g, calls) /\ GatesContiguous(g)
  BY <1>1 DEF AxisInv
<1>5. ASSUME NEW k \in 1..l PROVE Authored(g[k].of) = g[k].gate
  <2>1. \A i \in DOMAIN single : \E j \in DOMAIN g : single[i].of = g[j].of
    <3>1. ASSUME NEW i \in 1..l PROVE \E j \in 1..l : single[i].of = g[j].of
      <4>1. (l + 1) - i \in 1..l
        OBVIOUS
      <4>2. QED
        BY <1>3, <4>1
    <3>2. QED
      BY <1>2, <3>1
  <2>2. \A j \in DOMAIN g : \E i \in DOMAIN single : single[i].of = g[j].of
    <3>1. ASSUME NEW j \in 1..l PROVE \E i \in 1..l : single[i].of = g[j].of
      <4>1. PICK i \in 1..l : i = (l + 1) - j /\ (l + 1) - i = j
        OBVIOUS
      <4>2. QED
        BY <1>3, <4>1
    <3>2. QED
      BY <1>2, <3>1
  <2>3. k \in DOMAIN g
    BY <1>2
  <2>4. QED
    BY <1>1, <1>4, <2>1, <2>2, <2>3, AuthoredIs
<1>6. PICK a : a = [i \in 1..l |->
                     IF n = l THEN mapping[i] ELSE mapping[g[(l + 1) - i].gate + 1]]
  OBVIOUS
<1>7. \A i \in 1..l : /\ g[(l + 1) - i].gate \in Nat
                      /\ g[(l + 1) - i].gate + 1 \in 1..NGates(g)
  <2>1. \A k \in 1..l : g[k] \in Layers /\ g[k].gate + 1 \in 1..NGates(g)
    BY <1>1, <1>2, ElementOfSeq, NGatesType
  <2>2. \A k \in 1..l : g[k].gate \in Nat
    BY <2>1 DEF Layers
  <2>3. \A i \in 1..l : (l + 1) - i \in 1..l
    OBVIOUS
  <2>4. QED
    BY <2>1, <2>2, <2>3
<1>8. ASSUME NEW i \in 1..l PROVE \E q \in 1..n : a[i] = mapping[q]
  <2>1. CASE n = l
    BY <1>6, <2>1
  <2>2. CASE n # l
    <3>1. g[(l + 1) - i].gate + 1 \in 1..n
      BY <1>2, <1>7, <2>2
    <3>2. QED
      BY <1>6, <2>2, <3>1
  <2>3. QED
    BY <2>1, <2>2
<1>9. \A i \in 1..l : a[i] \in Nat
  <2>1. \A q \in 1..n : mapping[q] \in Nat
    BY ElementOfSeq
  <2>2. QED
    BY <1>8, <2>1
<1>10. ASSUME NEW q \in 1..n PROVE \E i \in 1..l : a[i] = mapping[q]
  <2>1. CASE n = l
    BY <1>6, <2>1
  <2>2. CASE n # l
    <3>1. q - 1 \in 0..(NGates(g) - 1)
      BY <1>2, <2>2
    <3>2. PICK k \in 1..l : g[k].gate = q - 1
      BY <1>2, <1>4, <3>1 DEF GatesContiguous
    <3>3. PICK i \in 1..l : i = (l + 1) - k /\ (l + 1) - i = k
      <4>1. (l + 1) - k \in 1..l /\ (l + 1) - ((l + 1) - k) = k
        OBVIOUS
      <4>2. QED
        BY <4>1
    <3>4. a[i] = mapping[(q - 1) + 1]
      BY <1>6, <2>2, <3>2, <3>3
    <3>5. (q - 1) + 1 = q
      OBVIOUS
    <3>6. QED
      BY <3>4, <3>5
  <2>3. QED
    BY <2>1, <2>2
<1>11. ASSUME NEW i \in 1..l PROVE T[i] \in Layers /\ T[i].angle = a[i]
  <2>1. PICK s \in Layers, b \in Nat : s = single[i] /\ b = a[i]
    BY <1>3, <1>9
  <2>2. Authored(single[i].of) = g[(l + 1) - i].gate
    <3>1. (l + 1) - i \in 1..l
      OBVIOUS
    <3>2. QED
      BY <1>3, <1>5, <3>1
  <2>3. a[i] = IF n = Len(single) THEN mapping[i] ELSE mapping[Authored(single[i].of) + 1]
    BY <1>2, <1>6, <2>2
  <2>4. T[i] = [s EXCEPT !.angle = b]
    BY <1>2, <2>1, <2>3 DEF Rewired
  <2>5. QED
    BY <2>1, <2>4 DEF Layers
<1>12. T \in Seq(Layers) /\ Len(T) = l
  <2>1. DOMAIN T = 1..l /\ T = [i \in 1..l |-> T[i]]
    BY <1>2 DEF Rewired
  <2>2. T \in [1..l -> Layers]
    BY <1>11, <2>1
  <2>3. T \in Seq(Layers)
    BY <2>2, SeqDef
  <2>4. QED
    BY <2>1, <2>3, LenProperties
<1>13. Len(h) = l
  <2>1. Len(mapping) = Len(g) \/ Len(mapping) = NGates(g)
    OBVIOUS
  <2>2. QED
    BY <1>1, <1>2, <2>1, SetParameterMappingType
<1>14. ASSUME NEW i \in 1..l PROVE h[(l + 1) - i].angle = a[i]
  <2>1. PICK k \in 1..l : k = (l + 1) - i /\ (l + 1) - k = i
    OBVIOUS
  <2>2. h[k].angle = IF Len(mapping) = Len(g) THEN mapping[Len(g) + 1 - k]
                     ELSE mapping[g[k].gate + 1]
    <3>1. k \in DOMAIN g
      BY <1>2
    <3>2. \A j \in DOMAIN g : SetParameterMapping(g, mapping)[j].angle =
            IF Len(mapping) = Len(g) THEN mapping[Len(g) + 1 - j] ELSE mapping[g[j].gate + 1]
      BY <1>1, RemappedAt, SMTT(60)
    <3>3. QED
      BY <3>1, <3>2
  <2>3. Len(g) + 1 - k = i
    BY <1>2, <2>1
  <2>4. QED
    BY <1>2, <1>6, <2>1, <2>2, <2>3
<1>15. \A i \in 1..Len(T) : h[(Len(T) + 1) - i].angle = T[i].angle
  BY <1>11, <1>12, <1>14
<1>16. /\ \A i \in 1..Len(T) : \E q \in 1..n : T[i].angle = mapping[q]
       /\ \A q \in 1..n : \E i \in 1..Len(T) : T[i].angle = mapping[q]
  <2>1. ASSUME NEW i \in 1..l PROVE \E q \in 1..n : T[i].angle = mapping[q]
    BY <1>8, <1>11
  <2>2. ASSUME NEW q \in 1..n PROVE \E i \in 1..l : T[i].angle = mapping[q]
    BY <1>10, <1>11
  <2>3. QED
    BY <1>12, <2>1, <2>2
<1>17. QED
  BY <1>12, <1>13, <1>15, <1>16 DEF Share

\* The parameter_mapping setter gives the graph and the equivalent circuit one mapping.
LEMMA RewireKeepsAxis ==
  ASSUME ReplayInv, AxisInv, NEW n, Rewire(n)
  PROVE  AxisInv'
<1>1. /\ FirstPart \in Parts /\ calls \in Nat /\ calls' = calls + 1
      /\ \A p, q \in Parts : graph[p] = graph[q]
      /\ \A p \in Parts : graph[p] \in Seq(Layers)
  BY CallFacts DEF Rewire
<1>2. PICK g : g = graph[FirstPart]
  OBVIOUS
<1>3. g \in Seq(Layers) /\ \A p \in Parts : graph[p] = g
  BY <1>1, <1>2
<1>4. PICK mapping \in Rewirings(n) :
        /\ graph' = [p \in Parts |-> SetParameterMapping(graph[p], mapping)]
        /\ nParams' = Max(Range(mapping)) + 1
        /\ single' = Rewired(n, mapping)
  BY DEF Rewire, Rewired
<1>5. g # <<>> /\ (n = Len(g) \/ n = NGates(g))
  BY <1>2 DEF Rewire
<1>6. n \in Nat \ {0}
  <2>1. PICK l \in Nat : l = Len(g) /\ DOMAIN g = 1..l /\ l # 0
    BY <1>3, <1>5, LenProperties, EmptySeq
  <2>2. PICK k \in Nat : k = NGates(g) /\ \A i \in DOMAIN g : g[i].gate + 1 \in 1..k
    BY <1>3, NGatesType
  <2>3. k # 0
    <3>1. 1 \in DOMAIN g
      BY <2>1
    <3>2. QED
      BY <2>2, <3>1
  <2>4. QED
    BY <1>5, <2>1, <2>2, <2>3
<1>7. mapping \in Seq(Nat) /\ Len(mapping) = n
  BY <1>4, <1>6, RewiringsType
<1>8. PICK h : h = SetParameterMapping(g, mapping)
  OBVIOUS
<1>9. h \in Seq(Layers) /\ Len(h) = Len(g)
  <2>1. Len(mapping) = Len(g) \/ Len(mapping) = NGates(g)
    BY <1>5, <1>7
  <2>2. QED
    BY <1>3, <1>7, <1>8, <2>1, SetParameterMappingType
<1>10. \A p \in Parts : graph'[p] = h
  BY <1>3, <1>4, <1>8
<1>11. /\ \A a : GatesOrdered(g, a) => GatesOrdered(h, a)
       /\ GatesContiguous(g) => GatesContiguous(h)
  <2>1. DOMAIN h = DOMAIN g
    BY <1>3, <1>9, LenProperties
  <2>2. \A l \in DOMAIN g : h[l].of = g[l].of /\ h[l].gate = g[l].gate
    BY <1>3, <1>8, RemappedAt
  <2>3. QED
    BY <1>3, <1>9, <2>1, <2>2, SameGates
<1>12. GatesOrdered(h, calls')
  <2>1. GatesOrdered(g, calls)
    BY <1>1, <1>2 DEF AxisInv
  <2>2. calls' \in Nat /\ calls <= calls'
    BY <1>1
  <2>3. QED
    BY <1>1, <1>9, <1>11, <2>1, <2>2, OrderedLater
<1>13. fails' = fails /\ seeding' = {}
  BY DEF Rewire, Completes
<1>14. ASSUME fails = 0
       PROVE  /\ nParams' = NParameters(single') /\ GatesContiguous(h)
              /\ ParameterMapping(h) = [i \in DOMAIN single' |-> single'[i].angle]
  <2>1. PICK T : T = Rewired(n, mapping) /\ T = single'
    BY <1>4
  <2>2. /\ T \in Seq(Layers) /\ Len(h) = Len(T)
        /\ \A i \in 1..Len(T) : h[(Len(T) + 1) - i].angle = T[i].angle
        /\ \A i \in 1..Len(T) : \E q \in 1..n : T[i].angle = mapping[q]
        /\ \A q \in 1..n : \E i \in 1..Len(T) : T[i].angle = mapping[q]
    <3>1. T \in Seq(Layers) /\ Share(h, T, n, mapping)
      BY <1>2, <1>5, <1>6, <1>7, <1>8, <1>14, <2>1, RewiredCircuit
    <3>2. QED
      BY <3>1 DEF Share
  <2>3. ParameterMapping(h) = [i \in DOMAIN T |-> T[i].angle]
    BY <1>9, <2>2, SameMapping
  <2>4. PICK top \in Nat : /\ top = Max(Range(mapping))
                           /\ \E q \in 1..n : mapping[q] = top
                           /\ \A q \in 1..n : mapping[q] \in Nat /\ mapping[q] <= top
    <3>1. \A q \in 1..n : mapping[q] \in Nat
      BY <1>7, ElementOfSeq
    <3>2. DOMAIN mapping = 1..n
      BY <1>7, LenProperties
    <3>3. Range(mapping) = {mapping[q] : q \in 1..n}
      BY <3>2 DEF Range
    <3>4. /\ Max({mapping[q] : q \in 1..n}) \in Nat
          /\ \E q \in 1..n : Max({mapping[k] : k \in 1..n}) = mapping[q]
          /\ \A q \in 1..n : mapping[q] <= Max({mapping[k] : k \in 1..n})
      BY <1>6, <3>1, MaxOfMembers
    <3>5. QED
      BY <3>1, <3>3, <3>4
  <2>5. PICK more \in Nat : more = top + 1
    OBVIOUS
  <2>6. ASSUME NEW i \in 1..Len(T) PROVE T[i].angle < more
    <3>1. PICK q \in 1..n : T[i].angle = mapping[q]
      BY <2>2
    <3>2. PICK a \in Nat : a = mapping[q] /\ a <= top
      BY <2>4
    <3>3. QED
      BY <2>5, <3>1, <3>2
  <2>7. PICK q \in 1..n : mapping[q] = top
    BY <2>4
  <2>8. PICK i \in 1..Len(T) : T[i].angle = top
    BY <2>2, <2>7
  <2>9. T[i].angle + 1 = more
    BY <2>5, <2>8
  <2>10. NParameters(T) = more
    BY <2>2, <2>6, <2>9, LayerParametersAre
  <2>11. GatesContiguous(h)
    BY <1>1, <1>2, <1>11, <1>14 DEF AxisInv
  <2>12. QED
    BY <1>4, <2>1, <2>3, <2>4, <2>5, <2>10, <2>11
<1>15. QED
  BY <1>10, <1>12, <1>13, <1>14 DEF AxisInv, SeedsAtUsersPoint

------------------------------------------------------------------------------
(***************************************************************************)
(* The theorems                                                            *)
(***************************************************************************)

\* A new propagator.
LEMMA InitAxisInv == Init => AxisInv
<1>1. SUFFICES ASSUME Init PROVE AxisInv
  OBVIOUS
<1>2. graph = [p \in Parts |-> <<>>] /\ single = <<>> /\ nParams = 0 /\ seeding = {}
  BY <1>1 DEF Init
<1>3. \A p \in Parts : GatesOrdered(graph[p], calls) /\ GatesContiguous(graph[p])
  BY <1>2, OrderedEmpty
<1>4. \A p \in Parts : ParameterMapping(graph[p]) = [i \in DOMAIN single |-> single[i].angle]
  <2>1. <<>> \in Seq(Layers) /\ Len(<<>>) = 0
    BY EmptySeq
  <2>2. \A i \in 1..Len(<<>>) : <<>>[(Len(<<>>) + 1) - i].angle = <<>>[i].angle
    BY <2>1
  <2>3. ParameterMapping(<<>>) = [i \in DOMAIN <<>> |-> <<>>[i].angle]
    BY <2>1, <2>2, SameMapping
  <2>4. QED
    BY <1>2, <2>3
<1>5. QED
  BY <1>2, <1>3, <1>4, NoGates DEF AxisInv, SeedsAtUsersPoint

\* The session's whole invariant, for any circuits, any number of partitions, of calls
\* and of failures: beside the order of replay, where every layer is on the axis and
\* which gate index it has.
THEOREM SessionInductive == Spec => []SessionInv
<1>1. Init => AxisInv
  BY InitAxisInv
<1>2. ReplayInv /\ AxisInv /\ [Next]_vars => AxisInv'
  <2>1. SUFFICES ASSUME ReplayInv, AxisInv, [Next]_vars PROVE AxisInv'
    OBVIOUS
  <2>2. CASE \E c \in Circuits : Build(c)
    BY <2>1, <2>2, BuildKeepsAxis
  <2>3. CASE \E c \in Circuits : BuildFails(c)
    BY <2>1, <2>3, BuildFailsKeepsAxis
  <2>4. CASE \E have \in BOOLEAN : Contract(have)
    BY <2>1, <2>4, ContractKeepsAxis
  <2>5. CASE ContractFails
    BY <2>1, <2>5, ContractFailsKeepsAxis
  <2>6. CASE \E n \in {Len(graph[FirstPart]), NGates(graph[FirstPart])} : Rewire(n)
    BY <2>1, <2>6, RewireKeepsAxis
  <2>7. CASE \/ \E c \in Circuits : Propagate(c) \/ PropagateFails(c)
             \/ \E owner \in SUBSET Parts : Reweight(owner)
             \/ \E pared \in Pared : MakeFunctional(pared)
             \/ UNCHANGED vars
    BY <2>1, <2>7, OthersKeepAxis
  <2>8. QED
    BY <2>1, <2>2, <2>3, <2>4, <2>5, <2>6, <2>7 DEF Next
<1>3. SessionInv <=> ReplayInv /\ AxisInv
  BY DEF SessionInv
<1>4. QED
  BY <1>1, <1>2, <1>3, ReplayInductive, PTL DEF Spec

\* The call and the gate of a rotation.
LEMMA FirstTwo ==
  ASSUME NEW a \in Nat, NEW b \in Nat, NEW x \in Nat
  PROVE  SubSeq(<<a, b, x>>, 1, 2) = <<a, b>>
<1>1. <<a, b, x>> \in Seq(Nat)
  OBVIOUS
<1>2. Len(<<a, b, x>>) = 3
  OBVIOUS
<1>3. <<a, b, x>>[1] = a /\ <<a, b, x>>[2] = b
  OBVIOUS
<1>4. <<a, b>> \in Seq(Nat)
  OBVIOUS
<1>5. Len(<<a, b>>) = 2
  OBVIOUS
<1>6. <<a, b>>[1] = a /\ <<a, b>>[2] = b
  OBVIOUS
<1>7. PICK s \in Seq(Nat) : s = <<a, b, x>>
  BY <1>1
<1>8. s[1] = a /\ s[2] = b
  BY <1>3, <1>7
<1>9. PICK u \in Seq(Nat) : u = <<a, b>>
  BY <1>4
<1>10. u[1] = a /\ u[2] = b /\ Len(u) = 2
  BY <1>5, <1>6, <1>9
<1>11. PICK from \in Int, to \in Int : from = 1 /\ to = 2
  OBVIOUS
<1>12. \A i \in from..to : s[i] \in Nat
  BY <1>8, <1>11
<1>13. /\ SubSeq(s, from, to) \in Seq(Nat)
       /\ Len(SubSeq(s, from, to)) = IF from <= to THEN (to - from) + 1 ELSE 0
       /\ \A i \in 1..((to - from) + 1) : SubSeq(s, from, to)[i] = s[(from + i) - 1]
  BY <1>12, SubSeqProperties
<1>14. PICK t \in Seq(Nat) : t = SubSeq(s, from, to)
  BY <1>13
<1>15. Len(t) = 2
  <2>1. from <= to /\ (to - from) + 1 = 2
    BY <1>11
  <2>2. QED
    BY <1>13, <1>14, <2>1
<1>16. t[1] = s[1] /\ t[2] = s[2]
  <2>1. 1 \in 1..((to - from) + 1) /\ (from + 1) - 1 = 1
    BY <1>11
  <2>2. 2 \in 1..((to - from) + 1) /\ (from + 2) - 1 = 2
    BY <1>11
  <2>3. \A i \in 1..((to - from) + 1) : t[i] = s[(from + i) - 1]
    BY <1>13, <1>14
  <2>4. t[1] = s[(from + 1) - 1] /\ t[2] = s[(from + 2) - 1]
    BY <2>1, <2>2, <2>3
  <2>5. QED
    BY <2>1, <2>2, <2>4
<1>17. t = u
  <2>1. \A i \in 1..2 : t[i] = u[i]
    BY <1>8, <1>10, <1>16
  <2>2. Len(u) = 2
    BY <1>10
  <2>3. QED
    BY <1>15, <2>1, <2>2, SameSequence
<1>18. QED
  BY <1>7, <1>9, <1>11, <1>14, <1>17

\* Circuit.__add__, build_graph's wrapped axis and set_parameter_mapping together: a
\* graph built in several calls has, at the same places, the parameters of the one
\* circuit that the calls add up to, re-wired alike, and two layers have one gate
\* index exactly if they are terms of one gate of one call, even after a failure.
THEOREM AxisMatches == Spec => []AxisMatchesSingleCircuit
<1>1. ReplayInv /\ AxisInv => AxisMatchesSingleCircuit
  <2>1. SUFFICES ASSUME ReplayInv, AxisInv PROVE AxisMatchesSingleCircuit
    OBVIOUS
  <2>2. ASSUME NEW p \in Parts, NEW k \in Range(graph[p]), NEW l \in Range(graph[p])
        PROVE  k.gate = l.gate <=> SubSeq(k.of, 1, 2) = SubSeq(l.of, 1, 2)
    <3>1. PICK i \in DOMAIN graph[p] : k = graph[p][i]
      BY DEF Range
    <3>2. PICK j \in DOMAIN graph[p] : l = graph[p][j]
      BY DEF Range
    <3>3. graph[p] \in Seq(Layers) /\ GatesOrdered(graph[p], calls)
      BY <2>1 DEF ReplayInv, SessionTypeOK, AxisInv
    <3>4. k.gate \in Nat /\ l.gate \in Nat
      <4>1. k \in Layers /\ l \in Layers
        BY <3>1, <3>2, <3>3, ElementOfSeq, LenProperties
      <4>2. QED
        BY <4>1 DEF Layers
    <3>5. /\ k.of \in Nat \X Nat \X Nat /\ l.of \in Nat \X Nat \X Nat
          /\ k.gate < l.gate <=> Before(k.of, l.of)
          /\ l.gate < k.gate <=> Before(l.of, k.of)
      BY <3>1, <3>2, <3>3 DEF GatesOrdered
    <3>6. PICK a \in Nat, b \in Nat, x \in Nat : k.of = <<a, b, x>>
      BY <3>5
    <3>7. PICK c \in Nat, d \in Nat, y \in Nat : l.of = <<c, d, y>>
      BY <3>5
    <3>8. k.gate = l.gate <=> a = c /\ b = d
      <4>1. /\ k.gate < l.gate <=> (a < c \/ (a = c /\ b < d))
            /\ l.gate < k.gate <=> (c < a \/ (c = a /\ d < b))
        BY <3>5, <3>6, <3>7 DEF Before
      <4>2. QED
        BY <3>4, <4>1
    <3>9. SubSeq(k.of, 1, 2) = <<a, b>> /\ SubSeq(l.of, 1, 2) = <<c, d>>
      BY <3>6, <3>7, FirstTwo
    <3>10. <<a, b>> = <<c, d>> <=> a = c /\ b = d
      OBVIOUS
    <3>11. QED
      BY <3>8, <3>9, <3>10
  <2>3. QED
    BY <2>1, <2>2 DEF AxisInv, AxisMatchesSingleCircuit
<1>2. SessionInv <=> ReplayInv /\ AxisInv
  BY DEF SessionInv
<1>3. QED
  BY <1>1, <1>2, SessionInductive, PTL

\* The seed of an informed build: until a call fails, every layer was contracted at
\* the value that the user gave for that layer's place on the axis after the call.
THEOREM Seeds == Spec => []SeedsAtUsersPoint
<1>1. SessionInv => SeedsAtUsersPoint
  BY DEF SessionInv, AxisInv
<1>2. QED
  BY <1>1, SessionInductive, PTL

=============================================================================
