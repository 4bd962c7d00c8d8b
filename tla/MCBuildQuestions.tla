-------------------------- MODULE MCBuildQuestions --------------------------
(* Uploads of a few seconds to half a minute, in units of 50 ms. *)
EXTENDS BuildQuestions

CONSTANTS anna, bent, carl

MCTimbre == [v \in Voices |-> CASE v = anna -> <<1, 0>> [] v = bent -> <<0, 1>>
                                [] OTHER -> <<1, 1>>]

\* What the proof of PickedSpeakerIsBuilt rests on.
ASSUME TimbreIsApart == TimbresApart

\* Turns of the given voices, lengths and qualities, one right after the other.
Clip(turns) ==
  LET begin[i \in 1..(Len(turns) + 1)] == IF i = 1 THEN 0 ELSE begin[i - 1] + turns[i - 1][2]
  IN [length |-> begin[Len(turns) + 1],
      turns |-> [i \in DOMAIN turns |->
                   [voice |-> turns[i][1], start |-> begin[i], end |-> begin[i + 1],
                    quality |-> turns[i][3]]]]

\* Two speak alike long, in two clips.
Interview == <<Clip(<<<<anna, 130, 2>>, <<bent, 150, 3>>>>),
               Clip(<<<<bent, 120, 2>>, <<anna, 125, 1>>, <<anna, 30, 3>>>>)>>
\* One speaks half as much again as the other, in more turns: a late reading is in doubt.
Edge == <<Clip(<<<<anna, 125, 2>>, <<bent, 160, 2>>>>), Clip(<<<<anna, 115, 3>>>>)>>
\* Nobody speaks long enough for a reference in one clip.
Snippets == <<Clip(<<<<anna, 60, 2>>, <<bent, 16, 1>>>>), Clip(<<<<anna, 70, 3>>>>),
              Clip(<<<<anna, 50, 1>>, <<anna, 64, 2>>>>)>>
Scraps == <<Clip(<<<<anna, 60, 2>>, <<bent, 10, 2>>, <<anna, 40, 2>>>>), Clip(<<<<anna, 20, 3>>>>)>>
\* Turns as short as a preview can use, those of one speaker faint.
Banter == <<Clip(<<<<anna, 8, 2>>, <<bent, 8, 1>>, <<anna, 8, 2>>, <<bent, 10, 1>>, <<anna, 10, 2>>>>),
            Clip(<<<<anna, 112, 2>>, <<bent, 118, 2>>>>)>>
\* Three, one of whom resembles neither of the others enough.
Panel == <<Clip(<<<<anna, 140, 2>>, <<bent, 130, 2>>>>), Clip(<<<<carl, 150, 1>>>>)>>
\* A monologue, noise beside somebody who speaks, and too little of anything.
Monologue == <<Clip(<<<<anna, 210, 2>>, <<anna, 220, 3>>, <<anna, 205, 2>>, <<anna, 120, 2>>, <<anna, 115, 2>>>>)>>
Silence == <<Clip(<<<<anna, 200, 2>>>>), Clip(<<<<bent, 180, 0>>>>)>>
Crumbs == <<Clip(<<<<anna, 90, 2>>>>)>>

MCScenes == {Interview, Edge, Snippets, Scraps, Banter, Panel, Monologue, Silence, Crumbs}
\* Another voice has a clip of its own.
Guest == {<<Clip(<<<<anna, 240, 2>>>>), Clip(<<<<bent, 150, 3>>>>)>>}
=============================================================================
