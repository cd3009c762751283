----------------------------- MODULE MCRequests -----------------------------
(* A small file system, the keys and the answers of a terminal. *)
EXTENDS Requests

MCCwd == <<"home">>

\* Started in /home, whose name may also be that of the link in the allowed root.
MCConfigs ==
    [key : BOOLEAN, host : {"127.0.0.1", "lan"}, pwd : {MCCwd}]
    \cup [key : {TRUE}, host : {"127.0.0.1"}, pwd : {<<"home", "u", "work", "up">>}]

dir == [is |-> "dir"]
link(kind, elems) == [is |-> "link", to |-> Path(kind, elems)]

\* /home/u/work is allowed.  In it are a link out, a link back in and a loop.
MCTree ==
    <<>> :> dir @@ <<"home">> :> dir @@ <<"home", "u">> :> dir
    @@ <<"etc">> :> dir
    @@ <<"home", "u", "work">> :> dir
    @@ <<"home", "u", "work", "src">> :> dir
    @@ <<"home", "u", "work", "file">> :> [is |-> "file"]
    @@ <<"home", "u", "work", "out">> :> link("abs", <<"etc">>)
    @@ <<"home", "u", "work", "up">> :> link("rel", <<"..", "..">>)
    @@ <<"home", "u", "work", "loop">> :> link("rel", <<"loop">>)
    @@ <<"home", "u", "in">> :> link("rel", <<"work", "src">>)

MCHome == <<"home", "u">>
MCRoots == <<Path("empty", <<>>), Path("abs", <<"gone">>), Path("home", <<"work">>)>>

Dirs ==
    {Path("empty", <<>>), Path("home", <<>>), Path("home", <<"in">>),
     Path("home", <<"work", "out">>), Path("home", <<"work", "up">>),
     Path("home", <<"work", "loop">>), Path("home", <<"work", "file">>),
     Path("home", <<"in", "..">>), Path("home", <<"work", "out", "..">>),
     Path("abs", <<"etc">>), Path("abs", <<"gone">>),
     Path("rel", <<>>), Path("rel", <<"..">>), Path("rel", <<"..", "etc">>),
     Path("rel", <<"u", "in", "..">>), Path("rel", <<"u", "work", "out">>)}

MCAsks ==
    [json : {TRUE}, blank : {FALSE}, destructive : BOOLEAN, confirm : BOOLEAN, dir : Dirs]
    \cup [json : BOOLEAN, blank : BOOLEAN, destructive : {FALSE}, confirm : {FALSE},
          dir : {Path("home", <<"in">>)}]

Key(name, mods, text) == [name |-> name, mods |-> mods, text |-> text]

Letters == {"a", "c", "i", "m"}
Modifiers == {{"shift"}, {"alt"}, {"ctrl"}, {"alt", "ctrl"}, {"shift", "ctrl"}}

MCKeys ==
    {Key(n, {}, <<>>) : n \in DOMAIN Plain \ {"space"}}
    \cup {Key(n, m, <<>>) : n \in DOMAIN Plain \ {"space"}, m \in Modifiers}
    \cup {Key(n, m, <<n>>) : n \in Letters \cup {"[", "]"}, m \in {{}, {"alt"}}}
    \cup {Key(n, m, <<>>) : n \in Letters \cup {"[", "]", "space"},
                            m \in {{"ctrl"}, {"alt", "ctrl"}}}
    \cup {Key("space", {}, <<"SP">>), Key("space", {"alt"}, <<"SP">>)}
    \cup {Key("A", m, <<"A">>) : m \in {{}, {"shift"}, {"shift", "alt"}}}
    \cup {Key("5", {"ctrl"}, <<>>)}                            \* sends nothing

MCReplies ==
    {CSI(<<"I">>), CSI(<<"O">>),                                \* focus
     CSI(<<"?", "1", ";", "2", "c">>), CSI(<<">", "0", ";", "0", "c">>),
     CSI(<<"2", ";", "4", "R">>),                               \* cursor
     CSI(<<"?", "2", "0", "2", "6", ";", "2", "$", "y">>),      \* mode
     CSI(<<"8", ";", "2", "4", ";", "8", "0", "t">>),           \* size
     <<"ESC", "]", "1", "1", ";", "rgb", "0", "BEL">>,          \* color
     <<"ESC", "]", "1", "1", ";", "rgb", "0", "ESC", "\\">>}

\* Keys of each form, and text.
MCTyped ==
    {keyToBytes(k) : k \in {j \in MCKeys : <<j.name, j.mods>> \in
        {<<"a", {}>>, <<"a", {"alt"}>>, <<"c", {"ctrl"}>>, <<"enter", {}>>, <<"esc", {}>>,
         <<"[", {"alt"}>>, <<"]", {"alt"}>>, <<"up", {}>>, <<"up", {"shift"}>>,
         <<"f3", {}>>, <<"f5", {}>>, <<"pgup", {}>>, <<"tab", {"shift"}>>}}}
    \cup {<<"rgb">>, <<"R">>, <<"c">>, <<"HIGH">>,
          CSI(<<"1", ";", "2", "R">>)}             \* shift+f3 of a browser
=============================================================================
