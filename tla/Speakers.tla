------------------------------ MODULE Speakers ------------------------------
(***************************************************************************)
(* Who speaks when: analysis/diarization.py with the worker it starts, and *)
(* the way app/pipeline.py puts a speaker to the user and finds him again. *)
(*                                                                         *)
(* pyannote is external. What it is given is a scene, the turns that are   *)
(* really spoken in each clip; what it makes of it is a reading, which may *)
(* change from one run to the next: the labels are arbitrary, turns may be *)
(* noticed late or, if faint, not at all, embeddings may be missing. Times *)
(* are in units of 50 ms.                                                  *)
(***************************************************************************)
EXTENDS Integers, FiniteSetsExt, SequencesExt

CONSTANTS
  Voices,  \* people
  Timbre   \* Timbre[v]: the embedding of voice v, a vector in the plane

ASSUME TimbreAssumption == Timbre \in [Voices -> Nat \X Nat]

\* 0.8 s, 0.4 s, the 4 s of a preview, and the 0.15 s of _cluster_from_anchor.
ShortTurn == 16
Crumb == 8
PreviewTarget == 80

\* Mutant: half a second, more than half of the shortest turn in a preview.
WideSlack == 10

Slack == 3

Length(turn) == turn.end - turn.start
Total(s, amount(_)) == FoldLeft(LAMBDA sum, x : sum + amount(x), 0, s)
Speaking(turns) == Total(turns, Length)

\* SelectSeq and SortSeq have no definition a proof can use. Here both take elements by their
\* places: Places enumerates a set of them, Order sorts them, largest key first. Python's sort
\* keeps the order of equals.
Taken(s, places) == [n \in DOMAIN places |-> s[places[n]]]

Places(I) ==
  [n \in 1..Cardinality(I) |-> CHOOSE i \in I : Cardinality({j \in I : j <= i}) = n]

Select(s, test(_)) == Taken(s, Places({i \in DOMAIN s : test(s[i])}))

Ahead(x, y) == x.key > y.key \/ (x.key = y.key /\ x.place <= y.place)
Order(keys) ==
  LET K == {[key |-> keys[i], place |-> i] : i \in DOMAIN keys}
      Ranked(n) == CHOOSE x \in K : Cardinality({y \in K : Ahead(y, x)}) = n
  IN [n \in DOMAIN keys |-> Ranked(n).place]

Descending(s, key(_)) == Taken(s, Order([i \in DOMAIN s |-> key(s[i])]))

\* What is really spoken in a clip, one turn after the other.
Utterances == [voice : Voices, start : Nat, end : Nat, quality : Nat]
Clips == {clip \in [length : Nat, turns : Seq(Utterances)] :
            \A i, k \in DOMAIN clip.turns : i < k => clip.turns[i].end <= clip.turns[k].start}

\* Voices heard in the given stretch of a clip, and how well they sound at best.
TurnsIn(clip, start, end) == {turn \in ToSet(clip.turns) : turn.start < end /\ start < turn.end}
VoicesIn(clip, start, end) == {turn.voice : turn \in TurnsIn(clip, start, end)}
Quality(clip, start, end) == Max({0} \cup {turn.quality : turn \in TurnsIn(clip, start, end)})

-----------------------------------------------------------------------------
(* pyannote_worker.py: exclusive turns, and each label with its speech and *)
(* its embedding.                                                          *)

Readings == [late : {0, 2}, faint : BOOLEAN, reversed : BOOLEAN, embedded : BOOLEAN]

\* Faint turns may be missed, and those that are over before they could be noticed.
Noticed(clip, reading) ==
  Select(clip.turns, LAMBDA turn : /\ reading.faint \/ turn.quality # 1
                                   /\ turn.start + reading.late < turn.end)
Present(clip, reading) == {turn.voice : turn \in ToSet(Noticed(clip, reading))}

\* Labels go by the first turn of a voice, or the other way round.
LabelOf(clip, v, reading) ==
  LET Begins(w) == Min({turn.start : turn \in {x \in ToSet(Noticed(clip, reading)) : x.voice = w}})
      n == Cardinality({w \in Present(clip, reading) : Begins(w) <= Begins(v)})
  IN IF reading.reversed THEN Cardinality(Present(clip, reading)) + 1 - n ELSE n

SegmentsOf(clip, reading) ==
  LET Segment(turn) == [start |-> turn.start + reading.late, end |-> turn.end,
                        label |-> LabelOf(clip, turn.voice, reading)]
      turns == Noticed(clip, reading)
  IN [i \in DOMAIN turns |-> Segment(turns[i])]

SpeakersOf(scene, c, reading) ==
  LET present == Present(scene[c], reading)
      Labelled(n) == CHOOSE v \in present : LabelOf(scene[c], v, reading) = n
      segments == SegmentsOf(scene[c], reading)
  IN [n \in 1..Cardinality(present) |->
        [clip |-> c, label |-> n,
         duration |-> Speaking(Select(segments, LAMBDA s : s.label = n)),
         embedding |-> IF reading.embedded THEN Timbre[Labelled(n)] ELSE <<0, 0>>]]

\* diarize_many: all clips of a build in one call.
Analysis(scene, reading) ==
  [segments |-> [c \in DOMAIN scene |-> SegmentsOf(scene[c], reading)],
   speakers |-> FlattenSeq([c \in DOMAIN scene |-> SpeakersOf(scene, c, reading)])]

-----------------------------------------------------------------------------
(* speaker_clusters: the labels of all clips, longest first, each joined   *)
(* to the closest cluster that resembles it.                               *)

Dot(a, b) == a[1] * b[1] + a[2] * b[2]

\* The cosine is at least 0.75. Without an embedding it is -1.
Alike(a, b) == Dot(a, b) > 0 /\ 16 * Dot(a, b) * Dot(a, b) >= 9 * Dot(a, a) * Dot(b, b)

\* Weighted by speech, in whole seconds. Its length is of no consequence to the cosine.
Weight(speaker) == Max({1, speaker.duration \div 20})
Across(speaker) == Weight(speaker) * speaker.embedding[1]
Along(speaker) == Weight(speaker) * speaker.embedding[2]
Centroid(cluster) == <<MapThenSumSet(Across, cluster), MapThenSumSet(Along, cluster)>>

Resembles(speaker, cluster) == Alike(speaker.embedding, Centroid(cluster))

\* The embeddings tell people apart: nobody's resembles another's. That is up to pyannote.
TimbresApart == \A v, w \in Voices : v # w => ~Alike(Timbre[v], Timbre[w])

Closer(speaker, one, other) ==
  LET a == Centroid(one)
      b == Centroid(other)
      x == Dot(speaker.embedding, a)
      y == Dot(speaker.embedding, b)
  IN x * x * Dot(b, b) > y * y * Dot(a, a)

\* Of several as close the last one is taken.
Join(clusters, speaker) ==
  LET alike == {i \in DOMAIN clusters : Resembles(speaker, clusters[i])}
      best == {i \in alike : \A k \in alike : ~Closer(speaker, clusters[k], clusters[i])}
  IN IF alike = {} THEN Append(clusters, {speaker})
     ELSE [clusters EXCEPT ![Max(best)] = @ \cup {speaker}]

Duration(speaker) == speaker.duration
Speech(cluster) == MapThenSumSet(Duration, cluster)

Nodes(analysis) ==
  Descending(Select(analysis.speakers, LAMBDA s : s.duration > 0), Duration)
SpeakerClusters(analysis) == Descending(FoldLeft(Join, <<>>, Nodes(analysis)), Speech)

\* The turns of a cluster in each clip, none where it does not speak.
SegmentsForCluster(analysis, cluster) ==
  [c \in DOMAIN analysis.segments |->
     Select(analysis.segments[c],
            LAMBDA s : \E n \in cluster : n.clip = c /\ n.label = s.label)]

\* primary_speaker_segments takes the first speaker without asking if he talks half as much
\* again as the second.
Ambiguous(clusters) ==
  Len(clusters) > 1 /\ 2 * Speech(clusters[1]) < 3 * Speech(clusters[2])

-----------------------------------------------------------------------------
(* The question which speaker is meant, and what its answer stands for.    *)

Hear(heard, turn) ==
  LET take == Min({Length(turn), heard.left})
  IN IF Length(turn) < Crumb \/ heard.left <= 0 THEN heard
     ELSE [parts |-> heard.parts \cup {[start |-> turn.start, end |-> turn.start + take]},
           left |-> heard.left - take]

PreviewParts(turns) ==
  FoldLeft(Hear, [parts |-> {}, left |-> PreviewTarget], Descending(turns, Length)).parts

\* A clip and the middle of the longest turn in it.
\* Mutant: its beginning.
AnchorAtStart(clip, turns) ==
  [clip |-> clip, time |-> Descending(turns, Length)[1].start]

SpeakerAnchor(clip, turns) ==
  LET longest == Descending(turns, Length)[1]
  IN [clip |-> clip, time |-> longest.start + Length(longest) \div 2]

\* The preview of the i-th cluster is from the clip it speaks most in.
SpeakerChoice(analysis, clusters, i) ==
  LET turns == SegmentsForCluster(analysis, clusters[i])
      Most(c) == Speaking(turns[c])
      clip == Descending([c \in DOMAIN turns |-> c], Most)[1]
  IN [choice |-> i, anchor |-> SpeakerAnchor(clip, turns[clip]),
      parts |-> PreviewParts(turns[clip])]

\* Speakers with too little speech, or none that can be heard, are not offered.
SpeakerChoices(scene, analysis, clusters) ==
  LET all == [i \in 1..Min({4, Len(clusters)}) |-> SpeakerChoice(analysis, clusters, i)]
      Audible(ch) ==
        \E p \in ch.parts : Quality(scene[ch.anchor.clip], p.start, p.end) > 0
  IN Select(all, LAMBDA ch : Speech(clusters[ch.choice]) >= ShortTurn /\ Audible(ch))

HasAnchor(analysis, cluster, anchor) ==
  \E s \in ToSet(SegmentsForCluster(analysis, cluster)[anchor.clip]) :
    s.start - Slack <= anchor.time /\ anchor.time <= s.end + Slack

\* _cluster_from_anchor: who speaks there, if that is one.
ClusterFromAnchor(analysis, clusters, anchor) ==
  LET there == {i \in DOMAIN clusters : HasAnchor(analysis, clusters[i], anchor)}
  IN IF Cardinality(there) = 1 THEN there ELSE {}
=============================================================================
