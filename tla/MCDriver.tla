------------------------------ MODULE MCDriver ------------------------------
(***************************************************************************)
(* Two sources, one using the other, a C library and two more jars: one    *)
(* that also defines puts, and one with an old version of the C library's  *)
(* class.                                                                  *)
(***************************************************************************)
EXTENDS Driver

MCDefines == [a |-> {"main"}, b |-> {"f"}]
MCUses == [a |-> {"f", "puts"}, b |-> {"puts"}]
MCJars == [libc |-> [libc |-> {"puts"}], alt |-> [alt |-> {"puts"}], old |-> [libc |-> {"gets"}]]
MCDirs == [lib |-> {"alt", "libc"}, both |-> {"old", "libc"}]
MCClassOrder == <<"a", "alt", "b", "libc", "p">>

Ac == <<"a", ".c">>
Bc == <<"b", ".c">>
Jar(n) == <<n, ".jar">>
Plj(n) == <<n, ".plj">>
J(n) == <<n, ".j">>

Line(only, class, inputs, outfile, libs, dir, flags) ==
    [only |-> only, class |-> class, inputs |-> inputs, outfile |-> outfile, libs |-> libs, dir |-> dir,
     dry_run |-> "y" \in flags, keep |-> "K" \in flags, mode |-> IF "N" \in flags THEN "cil" ELSE "jvm"]

FullBuilds ==
    {Line({}, c, <<Ac, Bc>>, NoFile, <<Jar("libc")>>, None, f) : c \in {"a", "p"}, f \in {{}, {"y"}}}
    \cup {Line({}, "p", <<Ac, Bc>>, J("a"), <<Jar("libc")>>, None, {"K"}),
          Line({}, "b", <<Bc>>, NoFile, <<Jar("libc")>>, None, {"K"}),
          Line({}, "a", <<Ac>>, NoFile, <<Jar("libc"), J("b")>>, None, {"K"}),
          Line({}, "p", <<Ac, Bc>>, NoFile, << >>, "missing", {}),
          Line({}, "p", <<Ac, Bc>>, NoFile, << >>, None, {"N"}),
          Line({}, None, <<Ac>>, NoFile, << >>, None, {})}

SingleSteps ==
    {Line({"compile"}, None, <<Ac, Bc>>, NoFile, << >>, None, {}),
     Line({"compile"}, None, <<Ac, Bc>>, <<"p", ".bc">>, << >>, None, {}),
     Line({"compile"}, None, <<Bc>>, <<"b", ".ll">>, << >>, None, {}),
     Line({"compile"}, None, << <<"a", ".bc">> >>, NoFile, << >>, None, {}),
     Line({"merge"}, "p", << <<"a", ".bc">>, <<"b", ".bc">> >>, <<"p", ".bc">>, << >>, None, {}),
     Line({"merge"}, "p", << <<"a", ".bc">>, <<"b", ".bc">> >>, NoFile, << >>, None, {}),
     Line({"genasm"}, "a", << <<"a", ".bc">> >>, NoFile, << >>, None, {}),
     Line({"genasm"}, "b", << <<"b", ".bc">> >>, Plj("p"), << >>, None, {}),
     Line({"genasm"}, "b", << <<"b", ".ll">> >>, NoFile, << >>, None, {}),
     Line({"genasm"}, "b", << <<"b", ".bc">> >>, NoFile, << >>, None, {"N"}),
     Line({"genasm"}, "b", << <<"a", ".bc">>, <<"b", ".bc">> >>, Plj("p"), << >>, None, {}),
     Line({"link"}, None, <<Plj("b")>>, NoFile, << >>, "lib", {}),
     Line({"link"}, None, <<Plj("b")>>, NoFile, << >>, "both", {}),
     Line({"link"}, None, <<Plj("b")>>, NoFile, <<Jar("old"), Jar("libc")>>, None, {}),
     Line({"link"}, None, <<Plj("p")>>, NoFile, <<J("b"), Jar("alt"), J("a")>>, None, {}),
     Line({"link"}, None, <<Plj("a")>>, NoFile, <<Jar("alt"), J("b")>>, None, {}),
     Line({"link"}, None, <<Plj("a")>>, NoFile, <<Jar("alt"), Plj("b")>>, None, {}),
     Line({"link"}, None, <<Plj("a")>>, NoFile, <<Jar("libc"), Jar("old"), J("a")>>, None, {"y"}),
     Line({"link"}, None, <<J("b")>>, NoFile, <<Jar("libc")>>, None, {}),
     Line({"link"}, None, <<J("b")>>, NoFile, << >>, None, {"N"}),
     Line({"link"}, None, << <<"b", ".bc">> >>, NoFile, << >>, None, {}),
     Line({"build"}, None, <<J("b")>>, NoFile, << >>, None, {}),
     Line({"build"}, None, <<J("a")>>, NoFile, << >>, None, {"y"}),
     Line({"compile", "merge"}, "p", <<Ac>>, NoFile, << >>, None, {})}

MCInvocations == FullBuilds \cup SingleSteps

ASSUME LinesAssumption == InputsApart /\ BitcodeNamed
=============================================================================
