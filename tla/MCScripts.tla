------------------------------ MODULE MCScripts ------------------------------
(* An instance of each script; the sizes are explained in the README.       *)
EXTENDS Scripts

(* Tables with notes on either side of a comma, a trailing comma, the       *)
(* largest number that can be raised and one that cannot, and no entry.     *)
Token(kind) == <<kind, "">>
Open == Token("(")
Close == Token(")")
Comma == Token(",")
Note == Token("note")
Name(n) == <<"name", n>>
Num(n) == <<"number", n>>
MCTexts == {<<Open, Name("a"), Close>>,
            <<Open, Note, Name("a"), Comma, Note, Num(8), Note, Comma, Note, Close>>,
            <<Open, Num(2), Comma, Name("b"), Comma, Num(9), Close>>,
            <<Open, Close>>}

(* Every bundle of two ends around up to three units.                       *)
Ends == {"word", "operator", "space", "newline"}
Middles == UNION {[1 .. n -> Units] : n \in 0 .. 3}
MCBuilds == {<<b, <<"word", "spanning", "word">> >> :
                b \in {x \in {<<a>> \o m \o <<z>> : a \in Ends, m \in Middles, z \in Ends} : IsBundle(x)}}

(* Sites that answer differently to HEAD and GET, chains of zero to three   *)
(* redirects, a loop, a refused and an unparsable target, and a name whose  *)
(* lookup may find a private address, a public one or nothing in time.      *)
Public == {"public", "no answer"}
MCHosts == [a |-> Public, b |-> Public, c |-> Public \cup {"private address"}, d |-> Public,
            npm |-> Public, refused |-> {"private address"}, plain |-> {"not https"}]
Say(status) == <<status, "">>
To(url) == <<"redirect", url>>
Both(answer) == [HEAD |-> answer, GET |-> answer]
MCSites ==
    [a : {[HEAD |-> Say("405"), GET |-> x] : x \in {Say("ok"), Say("404"), To("b"), Say("403")}}
         \cup {Both(x) : x \in {Say("ok"), Say("404"), To("a"), To("b"), To("refused"), To("unparsable")}},
     b : {Both(Say("404")), Both(To("c")), Both(To("plain")), [HEAD |-> Say("429"), GET |-> To("c")]},
     c : {Both(Say("ok")), Both(To("d")), Both(To("a"))},
     d : {Both(Say("ok")), Both(Say("404"))}]
Link(url, probe) == [url |-> url, probe |-> probe]
MCReadmes == {<<Link("a", "a"), Link("npm", "b")>>, <<Link("refused", "refused"), Link("a", "a")>>}

Text == <<"text", 0>>
MCBodies == {<<Text>>, <<<<"note", 0>>, Text>>, << >>}
=============================================================================
