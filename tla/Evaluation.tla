----------------------------- MODULE Evaluation -----------------------------
(***************************************************************************)
(* What the evaluation of a graph promises: the expectation value of the   *)
(* evolved operator, its derivative by every parameter, and the value of   *)
(* every term, computed from Rotation's gates as exact linear maps, with   *)
(* neither rows, slots, layers nor a reverse pass.                         *)
(*                                                                         *)
(* Doubles are modelled as m * eps^k with eps = 2^-53, one significand: a  *)
(* sum keeps the terms of the largest magnitude (smallest k) and loses the *)
(* others, as the addition of doubles does.  m is a residue modulo a       *)
(* prime, so that 3/5 and 4/5 are numbers and no arithmetic is rounded     *)
(* unless by eps.  The cosine of a quarter turn is eps, as std::cos gives  *)
(* it, and its inverse is 1/eps; the exact reference takes it as zero.     *)
(***************************************************************************)
EXTENDS Rotation

CONSTANT Prime

ASSUME PrimeAssumption ==
  Prime \in Nat /\ Prime > 100 /\ \A d \in 2 .. 100 : d * d <= Prime => Prime % d # 0

\* Residues between -Prime/2 and Prime/2, so that small integers stand for themselves.
Residue(n) == ((n + Prime \div 2) % Prime) - Prime \div 2

Inverted(n) == CHOOSE x \in 1 .. Prime - 1 : Residue(n * x) = 1

Fraction(a, b) == Residue(a * Inverted(b))

Zero == <<0, 0>>
Num(m, k) == IF Residue(m) = 0 THEN Zero ELSE <<Residue(m), k>>
Whole(n) == Num(n, 0)

FMul(a, b) == Num(a[1] * b[1], a[2] + b[2])
FNeg(a) == Num(-a[1], a[2])
FInverse(a) == Num(Inverted(a[1]), -a[2])

FAdd(a, b) ==
  CASE a = Zero -> b
    [] b = Zero -> a
    [] OTHER -> IF a[2] = b[2] THEN Num(a[1] + b[1], a[2]) ELSE IF a[2] < b[2] THEN a ELSE b

\* Sums in the order of the sequence: the addition of doubles is not associative.
FSum(terms) == FoldLeft(FAdd, Zero, terms)

\* The number that is left when eps is 0.
Exactly(a, n) == IF a[2] > 0 THEN Residue(n) = 0 ELSE a = Whole(n)

-----------------------------------------------------------------------------
(* Angles: a parameter is the pair of the cosine and the sine of 2 theta.  *)

Doubled(a) ==
  [cos |-> FAdd(FMul(a.cos, a.cos), FNeg(FMul(a.sin, a.sin))),
   sin |-> FMul(Whole(2), FMul(a.sin, a.cos))]

Back(a) == [a EXCEPT !.sin = FNeg(@)]

Turn(a, n) == CASE n = 1 -> a [] n = -1 -> Back(a) [] n = 2 -> Doubled(a)

Angle(job, gate) == Turn(job.params[gate.param], gate.gen_coeff)

\* In the exact reference.
Exact(a) == IF a[2] > 0 THEN 0 ELSE a[1]

-----------------------------------------------------------------------------
(* The vectors that an evaluation contracts.                               *)

StateAmplitude(job, M) ==
  IF is_paired(M) THEN state_phase(job.basis, M, initial_state_mask(job.initial_state)) ELSE 0

OperatorAmplitude(job, M) ==
  SumSet({job.initial_operator[i].coeff :
            i \in {n \in DOMAIN job.initial_operator : job.initial_operator[n].term = M}})

\* What the gates of the build act on, and what it is contracted with.
Evolving(job) == [M \in Monomials |-> SeedAmplitude(job, M)]
Fixed(job) ==
  [M \in Monomials |-> IF job.schrodinger THEN OperatorAmplitude(job, M) ELSE StateAmplitude(job, M)]

-----------------------------------------------------------------------------
(* The gates of a build, as linear maps at any angle.                      *)

\* course is Course(job), the operators of the build.
Gates(job, course) ==
  [n \in DOMAIN job.gates |->
     [gate |-> job.gates[n],
      rotated |-> Rotated(job, course[n], job.gates[n]),
      scaled |-> Scaled(job, course[n], job.gates[n])]]

SineOf(job, step, M) ==
  LET partner == Times(M, step.gate.gen)
  IN  (IF job.schrodinger THEN -1 ELSE 1) * SinePhase(job.basis, partner, step.gate.gen)

Applied(job, step, v) ==
  LET a == Angle(job, step.gate)
  IN  [M \in Monomials |->
         Residue((IF M \in step.scaled THEN Exact(a.cos) ELSE 1) * v[M]
                   + IF M \in step.rotated
                     THEN SineOf(job, step, M) * Residue(Exact(a.sin) * v[Times(M, step.gate.gen)])
                     ELSE 0)]

\* The derivative of a gate by its parameter.
Derived(job, step, v) ==
  LET a == Angle(job, step.gate)
      g == 2 * step.gate.gen_coeff
  IN  [M \in Monomials |->
         Residue(g * Residue(
           (IF M \in step.scaled THEN -Exact(a.sin) * v[M] ELSE 0)
             + IF M \in step.rotated
               THEN SineOf(job, step, M) * Residue(Exact(a.cos) * v[Times(M, step.gate.gen)])
               ELSE 0))]

\* The vector after all gates, the n-th replaced by its derivative; n = 0 replaces none.
Evolved(job, gates, n, v) ==
  FoldLeft(LAMBDA u, k : IF k = n THEN Derived(job, gates[k], u) ELSE Applied(job, gates[k], u),
           v, [k \in DOMAIN gates |-> k])

Dot(u, v, terms) == Residue(MapThenSumSet(LAMBDA M : Residue(u[M] * v[M]), terms))

Unit(M) == [N \in Monomials |-> IF N = M THEN 1 ELSE 0]

\* The answer to what a job asks of its graph, whose gates and terms are given.
Truth(job, course) ==
  LET gates == Gates(job, course)
      present == course[Len(course)].present
      evolved == Evolved(job, gates, 0, Evolving(job))
      slope(n) == Dot(Fixed(job), Evolved(job, gates, n, Evolving(job)), present)
      driven(k) == {n \in DOMAIN job.gates : job.gates[n].param = k}
      value(M) == CASE M = {} -> 1
                    [] M # {} /\ M \notin present -> 0
                    [] OTHER -> IF job.schrodinger THEN evolved[M]
                                ELSE Dot(Fixed(job), Evolved(job, gates, 0, Unit(M)), present)
  IN  CASE job.ask = "contract" -> [contracted |-> evolved]
        [] job.ask = "energy" -> [energy |-> job.core + Dot(Fixed(job), evolved, present)]
        [] job.ask = "gradient" ->
             [energy |-> job.core + Dot(Fixed(job), evolved, present),
              gradient |-> [k \in DOMAIN job.params |-> Residue(MapThenSumSet(slope, driven(k)))]]
        [] job.ask = "terms" ->
             [present |-> present, terms |-> [k \in DOMAIN job.keys |-> value(job.keys[k])]]
=============================================================================
