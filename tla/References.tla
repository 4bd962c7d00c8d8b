----------------------------- MODULE References -----------------------------
(***************************************************************************)
(* Which stretches of the clips may become the reference of a voice:       *)
(* analysis/reference.py. Everything is computed from the clips and from   *)
(* the turns that were attributed to the chosen speaker.                   *)
(***************************************************************************)
EXTENDS Speakers

\* target_s, the 5.5 s below which there is no reference, and MAX_REFERENCE_CHOICES.
Target == 200
Least == 110
MaxChoices == 4

\* A candidate is made of parts of clips. Its kind is "turn" for speech of one label in one
\* clip, "pooled" for turns of several clips, "window" for a clip nobody looked into.
Part(c, start, length) == [clip |-> c, start |-> start, length |-> length]
PartLength(p) == p.length
Lasting(candidate) == Total(candidate.parts, PartLength)
PartQuality(scene, p) == Quality(scene[p.clip], p.start, p.start + p.length)

\* The mean quality by length, times length by target, times the penalty in percent.
Worth(scene, parts) ==
  FoldLeft(+, 0, [i \in DOMAIN parts |-> parts[i].length * PartQuality(scene, parts[i])])
Candidate(scene, kind, parts, percent) ==
  [kind |-> kind, parts |-> parts, score |-> percent * Worth(scene, parts)]

ByQuality(scene, pieces) == Descending(pieces, LAMBDA p : PartQuality(scene, p))

-----------------------------------------------------------------------------
(* _all_candidates: each clip by itself. *)

\* The label with most speech among the turns.
MainLabel(turns) ==
  LET Share(s) == Speaking(Select(turns, LAMBDA x : x.label = s.label))
  IN Descending(turns, Share)[1].label

LongTurns(scene, c, turns) ==
  LET long == Select(turns, LAMBDA s : Length(s) >= Least)
      Begin(s) == Part(c, s.start, Min({Target, Length(s)}))
  IN [i \in DOMAIN long |-> Candidate(scene, "turn", <<Begin(long[i])>>, 100)]

\* The turns of a clip that are long enough to be a part.
Pieces(c, turns) ==
  LET usable == Select(turns, LAMBDA s : Length(s) >= ShortTurn)
  IN [i \in DOMAIN usable |-> Part(c, usable[i].start, Length(usable[i]))]

\* A part is added, as much of it as the target has room for.
Fill(parts, p) ==
  LET left == Target - Total(parts, PartLength)
  IN IF left <= 0 THEN parts ELSE Append(parts, [p EXCEPT !.length = Min({@, left})])

\* _stitched_candidate: the best turns of a clip up to the target, in the order they are spoken.
Stitched(scene, c, turns) ==
  LET pieces == Pieces(c, turns)
      chosen == Descending(FoldLeft(Fill, <<>>, ByQuality(scene, pieces)), LAMBDA p : -p.start)
  IN IF Total(pieces, PartLength) < Least THEN <<>>
     ELSE <<Candidate(scene, "turn", chosen, IF Len(chosen) > 1 THEN 98 ELSE 100)>>

Windows(scene, c) ==
  LET total == scene[c].length
      length == Min({Target, total})
      step == Max({40, length \div 2})
      Window(n) == Part(c, n * step, Min({length, total - n * step}))
  IN IF total < Least THEN <<>>
     ELSE [n \in 1..((total - Least) \div step + 1) |->
             Candidate(scene, "window", <<Window(n - 1)>>, 100)]

\* A clip without turns of the speaker counts as one that was not analysed.
CandidatesOfClip(scene, c, turns) ==
  LET mine == Select(turns, LAMBDA s : s.label = MainLabel(turns))
  IN IF turns = <<>> THEN Windows(scene, c)
     ELSE LongTurns(scene, c, mine) \o Stitched(scene, c, mine)

AllCandidates(scene, turns) ==
  FlattenSeq([c \in DOMAIN scene |-> CandidatesOfClip(scene, c, turns[c])])

-----------------------------------------------------------------------------
(* _pooled_candidates: bundles of turns of all clips, no speech used twice. *)

\* A bundle takes from the best piece left, once from each clip and no more than half the
\* target at first (spread), then from whatever there is.
CanTake(bundle, i) ==
  /\ bundle.pool[i].length >= Crumb
  /\ ~(bundle.spread /\ \E p \in ToSet(bundle.parts) : p.clip = bundle.pool[i].clip)

\* Mutant: what was taken stays in the pool.
Reuse(pool, i, taken) == pool

\* What was taken is gone.
UseUp(pool, i, taken) ==
  [pool EXCEPT ![i].start = @ + taken, ![i].length = @ - taken]

Extend(bundle, again) ==
  LET options == {i \in DOMAIN bundle.pool : CanTake(bundle, i)}
      i == Min(options)
      cap == IF bundle.spread THEN Max({ShortTurn, bundle.target \div 2}) ELSE bundle.target
      take == Min({bundle.pool[i].length, bundle.left, cap})
  IN IF bundle.left <= 1 \/ options = {} \/ take < Crumb THEN bundle
     ELSE [bundle EXCEPT !.pool = UseUp(@, i, take), !.left = @ - take,
                         !.parts = Append(@, [bundle.pool[i] EXCEPT !.length = take])]

\* Either pass ends after as many takes as there are pieces.
Bundle(pool, target) ==
  LET Pass(start) == FoldLeft(Extend, start, pool)
      spread == Pass([pool |-> pool, target |-> target, spread |-> TRUE,
                      left |-> target, parts |-> <<>>])
  IN Pass([spread EXCEPT !.spread = FALSE])

\* The first bundle that gets too short ends it.
Gather(done, n) ==
  LET bundle == Bundle(done.pool, done.target)
  IN IF done.over \/ Total(bundle.parts, PartLength) < Least THEN [done EXCEPT !.over = TRUE]
     ELSE [done EXCEPT !.pool = bundle.pool, !.made = Append(@, bundle.parts)]

Pooled(scene, turns) ==
  LET pieces == ByQuality(scene, FlattenSeq([c \in DOMAIN scene |-> Pieces(c, turns[c])]))
      total == Total(pieces, PartLength)
      count == Min({MaxChoices, total \div Least})
      start == [pool |-> pieces, target |-> Min({Target, total \div count}),
                over |-> FALSE, made |-> <<>>]
      made == FoldLeft(Gather, start, [n \in 1..count |-> n]).made
  IN IF count = 0 THEN <<>>
     ELSE [i \in DOMAIN made |->
             Candidate(scene, "pooled", made[i], IF Len(made[i]) > 1 THEN 97 ELSE 100)]

-----------------------------------------------------------------------------
(* rank_references: at most four, none of which is half of another. *)

Common(p, q) ==
  IF p.clip # q.clip THEN 0
  ELSE Max({0, Min({p.start + p.length, q.start + q.length}) - Max({p.start, q.start})})

Shared(pair) == pair.common
Overlap(a, b) ==
  MapThenSumSet(Shared, {[mine |-> i, other |-> k, common |-> Common(a.parts[i], b.parts[k])] :
                           i \in DOMAIN a.parts, k \in DOMAIN b.parts})

Differ(a, b) == 2 * Overlap(a, b) <= Min({Lasting(a), Lasting(b)})

Admit(chosen, candidate) ==
  IF Len(chosen) < MaxChoices /\ \A x \in ToSet(chosen) : Differ(candidate, x)
  THEN Append(chosen, candidate) ELSE chosen

Source(candidate) == candidate.parts[1].clip
Represent(chosen, x) ==
  IF \E y \in ToSet(chosen) : Source(y) = Source(x) THEN chosen ELSE Admit(chosen, x)
Complete(chosen, x) == IF x \in ToSet(chosen) THEN chosen ELSE Admit(chosen, x)

\* One candidate of each clip, then pooled ones, then what is left.
RankReferences(scene, turns) ==
  LET candidates == Descending(AllCandidates(scene, turns), LAMBDA x : x.score)
      represented == FoldLeft(Represent, <<>>, candidates)
      pooled == FoldLeft(Admit, represented, Pooled(scene, turns))
  IN FoldLeft(Complete, pooled, candidates)

\* What _materialize_reference accepts: 5.4 to 11.5 s with a gap of 80 ms between the parts,
\* and audible. Tenths of a unit.
Playable(scene, candidate) ==
  LET lasting == 10 * Lasting(candidate) + 16 * (Len(candidate.parts) - 1)
  IN /\ 1080 <= lasting /\ lasting <= 2300
     /\ \E p \in ToSet(candidate.parts) : PartQuality(scene, p) > 0
=============================================================================
