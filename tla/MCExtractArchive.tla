--------------------------- MODULE MCExtractArchive ---------------------------
(* Archives for ExtractArchive: files of every length up to two blocks and   *)
(* a half, names of every kind, what goes before and between entries, and    *)
(* archives that are to be refused.                                          *)
EXTENDS ExtractArchive

M(type, name, data, path) == [type |-> type, name |-> name, data |-> data, path |-> path]
File(name, data) == M("file", name, data, NoName)
Spells(type, path) == M(type, <<"@">>, <<1>>, path)
Other(type, data) == M(type, <<"o">>, data, NoName)

a == <<"a">>
b == <<"b">>
Members ==
    {<<File(a, <<1, 2, 1, 2, 1>>)>>,
     <<File(a, <<1, 1>>), File(b, <<>>)>>,
     <<File(a, <<1>>), File(a, <<2, 2, 2>>)>>,
     <<File(<<"..", "a">>, <<1>>), File(<<"", ".", "b">>, <<2>>)>>,
     <<Spells("long", <<"d", "a">>), File(b, <<1>>), File(a, <<2>>)>>,
     <<Spells("long", a), Spells("pax", b), Other("other", <<1>>), File(a, <<1>>)>>,
     <<Spells("pax", b), M("global", <<"@">>, <<1, 1>>, NoName), File(a, <<1>>)>>,
     <<M("dir", <<"d", "">>, <<>>, NoName), M("zero", NoName, <<>>, NoName),
       File(<<"d", "b">>, <<1>>)>>,
     <<M("dir", <<".">>, <<1>>, NoName), M("pax", <<"@">>, <<>>, NoName),
       File(a, <<1>>)>>,
     <<Spells("long", <<"d", "e", "f", "g">>), File(a, <<1>>)>>,
     <<Spells("long", <<".", ".", ".", "a">>), File(<<"d", "e", "f">>, <<1>>)>>,
     <<File(a, <<1>>), Spells("pax", <<"d", "e", "f", "g">>), File(b, <<1>>)>>,
     <<File(a, <<1>>), M("pax", <<"@">>, <<1, 1, 1>>, b), File(b, <<1>>)>>,
     <<File(a, <<1>>), File(<<"d", "e", "f">>, <<1>>)>>,
     <<File(a, <<1>>), M("broken", a, <<>>, NoName)>>}

MCArchives == {[members |-> m, marker |-> k] : m \in Members, k \in 0..3}
=============================================================================
