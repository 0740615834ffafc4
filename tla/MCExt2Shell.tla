---------------------------- MODULE MCExt2Shell ----------------------------
EXTENDS Ext2Shell

In(name, ino) == [name |-> name, ino |-> ino, closed |-> TRUE, typed |-> TRUE]

\* Inode 2 is the root, 3 a directory, 4 a file, 5 an empty file, 6 a link.
MCKind == 2 :> "dir" @@ 3 :> "dir" @@ 4 :> "reg" @@ 5 :> "empty" @@ 6 :> "link"
Image(root, sub) ==
  [kind |-> MCKind,
   dirs |-> (2 :> root @@ 3 :> sub @@ 4 :> << >> @@ 5 :> << >> @@ 6 :> << >>)]

\* The root has one block to ten, with three direct ones and two pointers in a table: six
\* blocks use the double indirect pointer, ten the triple one.
First == <<In("d", 3), In("a", 4)>>
Second == <<In("e", 5)>>
Third == <<In("l", 6)>>
Roots ==
  { <<First \o Second \o Third>>,
    <<First, Second \o Third>>,
    <<First, Second, Third>>,
    <<First, << >>, << >>, Second \o Third>>,
    <<First, << >>, << >>, Third, Second>>,
    <<First, << >>, << >>, << >>, << >>, Second>>,
    <<First, << >>, << >>, << >>, << >>, << >>, << >>, << >>, << >>, Second>> }

\* The names of the subdirectory: one that occurs in the root too, "..", and entries
\* that are not found, not listed, or removed.
Subs ==
  { << <<In("up", 2), In("a", 5)>> >>,
    << <<In("up", 2)>>, << >>, << >>, <<In("a", 5)>> >>,
    << <<In("up", 2), [In("a", 5) EXCEPT !.closed = FALSE]>> >>,
    << <<In("up", 2), [In("a", 5) EXCEPT !.typed = FALSE]>> >>,
    << <<In("up", 2)>>, <<[In("a", 5) EXCEPT !.ino = Removed]>> >> }

MCImages == {Image(r, s) : r \in Roots, s \in Subs}
MCNames == {"d", "a", "e", "l", "up", "z"}
MCPaths ==
  { << >>, <<"d">>, <<"a">>, <<"e">>, <<"l">>, <<"z">>, <<"d", "a">>, <<"d", "z">>,
    <<"a", "z">>, <<"e", "z">>, <<"z", "a">>, <<"l", "a">>, <<"d", "up", "a">>,
    <<"d", "up", "d", "a">>, <<"d", "a", "z">> }
=============================================================================
