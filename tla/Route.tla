-------------------------------- MODULE Route -------------------------------
(***************************************************************************)
(* The router (js_route.c).  A pattern or a path is the sequence of the    *)
(* texts its slashes separate, behind the leading one; a text is a word,   *)
(* with or without a colon in front.                                       *)
(***************************************************************************)
EXTENDS Naturals, Sequences, SequencesExt

Text(word)  == [word |-> word, colon |-> FALSE]
Param(word) == [word |-> word, colon |-> TRUE]
Empty == Text("")

\* js_route_parse: one segment for each text, but none for an empty one at the end.
SegmentsKept(parts) == parts                            \* slip: a trailing slash is a segment
Segments(parts) == IF parts # <<>> /\ Last(parts) = Empty THEN Front(parts) ELSE parts

\* The method and the segments of a route fit those of a request.
FitsByMethod(route, method, segments) ==                \* slip: mock.all is a method of its own
    /\ route.method = method
    /\ Len(route.segments) = Len(segments)
    /\ \A i \in DOMAIN segments :
         route.segments[i].colon \/ route.segments[i].word = segments[i].word
Fits(route, method, segments) ==
    /\ route.method \in {"ALL", method}
    /\ Len(route.segments) = Len(segments)
    /\ \A i \in DOMAIN segments :
         route.segments[i].colon \/ route.segments[i].word = segments[i].word

\* js_route_match: the first route in the order of registration, 0 if none fits.
RouteMatch(routes, method, path) ==
    SelectInSeq(routes, LAMBDA route : Fits(route, method, Segments(path)))

\* The parameters of a match, name and value, by their places; the path went through
\* js_route_parse as well, and its texts have lost their colons.
Params(route, path) ==
    [i \in {j \in DOMAIN route.segments : route.segments[j].colon} |->
        <<route.segments[i].word, Segments(path)[i].word>>]

\* js_route_add: a route at the end of the list.
RouteAdd(routes, method, pattern) ==
    Append(routes, [method |-> method, segments |-> Segments(pattern)])
=============================================================================
