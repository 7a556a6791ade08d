----------------------------- MODULE MCFraming -----------------------------
(* Texts for the instances of Framing.  Pieces hold a NUL and end in one.  *)
EXTENDS Framing

OneContent == {<< Char(9), NUL >>}
TwoContents == OneContent \cup {<< NUL >>}
OnePath == {<< <<"text", "p">> >>}
TwoPaths == OnePath \cup {<< <<"text", "p">>, <<"text", "q">> >>}
=============================================================================
