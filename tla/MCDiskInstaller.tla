--------------------------- MODULE MCDiskInstaller ---------------------------
(* An instance of DiskInstaller: two drives, two packages of which the      *)
(* second needs the first, a font; sizes of the boot files around their     *)
(* limits.                                                                  *)
EXTENDS DiskInstaller

MCDrives == <<0, 1>>
MCPackages == <<"coreutils", "net">>
MCPlanOf == [coreutils |-> <<"coreutils">>, net |-> <<"libc", "net">>]
MCFonts == <<"font">>

\* Whole media, and media that lack something each.
MCMedia ==
    {[lacks |-> {}, core |-> s[1], kernel |-> s[2]] :
        s \in {<<3, 3>>, <<3, 1>>, <<4, 2>>, <<1, 5>>, <<8, 1>>}}
    \cup {[lacks |-> {x}, core |-> 1, kernel |-> 1] : x \in
        {"extract", "kernel", "index", "base", "icons", "fonts", "chibicc", "grub"}}

\* base.pkg is long enough for 1000 times its chunks to pass the word.
MCSizeOf ==
    [e \in {"install", "extract", "installer", "kernel", "index", "base", "manifest",
            "resolv", "config", "view", "icons", "icons16", "chibicc"}
           \cup ToSet(Fonts) |-> IF e = "base" THEN 5 ELSE 1]
=============================================================================
