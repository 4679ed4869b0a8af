------------------------ MODULE MCKeyboardWorkQueue ------------------------
(* Instantiates KeyboardWorkQueue with a small keycode ring. *)
EXTENDS KeyboardWorkQueue

\* 'a' pressed and released, left shift pressed and released
MCScanKeys == {30, 158, 42, 170}
\* every kind of byte: ctrl, 'a', shift, releases, KEY_ESCAPE, out of table
MCScanAll == {29, 30, 42, 157, 158, 170, 224, 92}
=============================================================================
