---------------------------- MODULE MCRepository ----------------------------
(***************************************************************************)
(* Instances of Repository for TLC: every text of at most four characters  *)
(* as the title of a file and as the version stated in it, and shorter     *)
(* ones in a constraint;                                                   *)
(* one directory with each kind of file beside another; and directories of *)
(* three files, asked for with every operator and in every order, along    *)
(* with names that are not there.                                          *)
(***************************************************************************)
EXTENDS Repository

MCNames == {"libyaml", "zlib"}
MCLastLetter == 11
MCMaxText == 4

Digit == 1
Letter == 10
Dot == -1
TextsUpTo(length) == UNION {[1..n -> {Digit, Letter, Dot}] : n \in 0..length}
ShortTexts == TextsUpTo(4)
OtherTexts == {<<0, 1>>, <<2>>, <<1, 2>>, <<1, Dot, 2>>, <<11>>, <<10, 11>>, <<1, Dot, 11>>}
MCTexts == ShortTexts \cup OtherTexts

Plain == Mapping(<<>>)
Text1 == Scalar(<<1>>)
Key(field, value) == Pair({field}, Scalar(<<>>), value)
States(t) == Mapping(<<Key("version", Scalar(t))>>)
Needing(item) == Key("dependencies", Sequence(<<item>>))

(* A file of each shape that fatso tells apart                             *)
Docs ==
  {Absent, Text1, Plain, States(<<2>>), States(<<>>),
   Mapping(<<Key("version", Plain)>>),
   Mapping(<<Key("author", Text1), Key("source", Text1)>>),
   Mapping(<<Key("source", Mapping(<<Key("git", Text1)>>))>>),
   Mapping(<<Key("source", Mapping(<<Key("ref", Text1)>>)), Key("dependencies", Text1)>>),
   Mapping(<<Key("source", Sequence(<<Text1>>)), Key("defines", Text1)>>),
   Mapping(<<Needing(Sequence(<<Text1>>))>>),
   Mapping(<<Needing(Sequence(<<Text1, Text1>>)), Key("dependencies", Text1)>>),
   Mapping(<<Needing(Text1)>>),
   Mapping(<<Needing(Sequence(<<Text1, Plain>>))>>),
   Mapping(<<Needing(Sequence(<<Plain>>))>>),
   Mapping(<<Key("defines", Mapping(<<Key("", Text1)>>))>>),
   Mapping(<<Key("defines", Mapping(<<Key("", Plain)>>))>>),
   Mapping(<<Key("configurations", Mapping(<<Needing(Text1)>>))>>),
   Mapping(<<Key("configurations", Sequence(<<Plain, Mapping(<<Needing(Text1)>>)>>))>>),
   Mapping(<<Key("configurations", Sequence(<<Text1>>))>>),
   Mapping(<<Pair({"version", "project"}, Scalar(<<>>), Scalar(<<2>>)),
             Key("version", Scalar(<<1>>))>>)}

F(title_, doc_) == [title |-> title_, kind |-> "file", doc |-> doc_]
OtherKind(title_, kind_) == [title |-> title_, kind |-> kind_, doc |-> Plain]
Query(name, mark, t) == [name |-> name, mark |-> mark, text |-> t]

Dir(files) == [there |-> TRUE, files |-> files]
NoDir == [there |-> FALSE, files |-> {}]
World(yaml, zlib, queries) ==
  [dirs |-> [n \in MCNames |-> IF n = "libyaml" THEN yaml ELSE zlib], queries |-> queries]

One == {Query("libyaml", "", <<>>)}

TextWorlds ==
  {World(Dir({F(t, Plain)}), NoDir, One) : t \in ShortTexts \ {<<>>}}
  \cup {World(Dir({F(<<1>>, States(t))}), NoDir, One) : t \in ShortTexts}
  \cup {World(Dir({F(<<1, 1>>, Plain), F(<<1, Dot, 1>>, Plain)}), NoDir,
              {Query("libyaml", mark, t)}) : mark \in {"=", "~>"}, t \in TextsUpTo(3)}

DocWorlds ==
  {World(Dir({F(<<1>>, doc), other}), zlib, One \cup {Query("zlib", "", <<>>)}) :
     doc \in Docs,
     other \in {F(<<2>>, Plain), OtherKind(<<2>>, "closed"), OtherKind(<<2>>, "other")},
     zlib \in {NoDir, Dir({}), Dir({F(<<1>>, Plain)})}}

Shelved ==
  {{<<1>>, <<1, Dot, 1>>, <<1, Dot, 2>>}, {<<1>>, <<0, 1>>, <<2>>},
   {<<1, Dot, 1>>, <<1, Dot, 10>>, <<1, Dot, 11>>}, {<<10>>, <<10, 11>>, <<11>>},
   {<<1, 2>>, <<1, 10>>, <<2>>}}

ListWorlds ==
  {World(Dir({F(title, Plain) : title \in titles}), Dir({F(<<1>>, Plain)}),
         {Query("libyaml", mark, t), Query("libyaml", "<=", <<2>>), Query("zlib", "", <<>>)}) :
     titles \in Shelved, mark \in Marks, t \in {<<1>>, <<1, Dot, 1>>, <<11>>}}

MCWorlds == TextWorlds \cup DocWorlds \cup ListWorlds
=============================================================================
