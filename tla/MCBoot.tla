-------------------------------- MODULE MCBoot ------------------------------
(***************************************************************************)
(* The instance of Boot for TLC.  Lists of up to two tags of every kind;   *)
(* three tags of memory, command line and another one in every order; and  *)
(* a single command line with very many texts.                             *)
(***************************************************************************)
EXTENDS Boot

MCAscii ==
  [c \in {" ", "0", "1", "a", "k", "x"} |->
     CASE c = " " -> 32 [] c = "0" -> 48 [] c = "1" -> 49 [] c = "a" -> 97
       [] c = "k" -> 107 [] c = "x" -> 120]

MCKeys == << <<"k", "a">>, <<"k", "x", "a">>, <<"a">> >>

Char == DOMAIN MCAscii

Texts(from, to) == UNION {[1 .. n -> Char] : n \in from .. to}

(* All short lines; a key with a value behind it, alone or in a word.      *)
Lines ==
  Texts(0, 3)
    \cup {p \o MCKeys[n] \o <<" ">> \o v :
            p \in {<<>>, <<"k">>, <<"0">>}, n \in 1 .. 3, v \in Texts(0, 3)}

T(kind, mem, text, empty) ==
  [tag |-> kind, mem |-> mem, start |-> 0, line |-> text, empty |-> empty]

LineA == <<"k", "a", " ", "1", "0", " ", "k", "x", "a", " ", "0", "x", "a", "1", " ">>
LineB == <<"k", "x", "a", " ", "1", "1", " ", " ">>

AnyTag ==
  {T(k, 0, <<>>, FALSE) : k \in (Known \ {"MEM", "CMDLINE"}) \cup {"unknown"}}
    \cup {T("MEM", m, <<>>, FALSE) : m \in {0, 1, 2, 4, 9, 11, 13, 16}}
    \cup {[T("MEM", 6, <<>>, FALSE) EXCEPT !.start = 8]}
    \cup {T("CMDLINE", 0, l, FALSE) : l \in {LineA, LineB}}
    \cup {T("SERIAL", 0, <<>>, TRUE), T("MEM", 9, <<>>, TRUE), T("CMDLINE", 0, LineB, TRUE)}

FewTags ==
  {T("SERIAL", 0, <<>>, FALSE), T("MEM", 5, <<>>, FALSE), T("MEM", 12, <<>>, FALSE),
   T("CMDLINE", 0, LineA, FALSE), T("CMDLINE", 0, LineB, FALSE)}

MCLists ==
  {Append(l, T("NONE", 0, <<>>, TRUE)) :
     l \in UNION {[1 .. n -> AnyTag] : n \in 0 .. 2}
           \cup [1 .. 3 -> FewTags]
           \cup {<<T("CMDLINE", 0, l, FALSE)>> : l \in Lines}}
=============================================================================
