------------------------------ MODULE MC_Apps ------------------------------
(* Instances of Ramfs and the applications for TLC. *)
EXTENDS Apps

\* An empty text and one that is not.
TwoTexts == {<<>>, <<"b", "a">>}

TwoSeeds == << <<"readme", <<"a">> >>, <<"welcome", <<"b">> >> >>
=============================================================================
