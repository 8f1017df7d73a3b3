------------------------------- MODULE MCHttp -------------------------------
(* Instances of Http for TLC.                                              *)
EXTENDS Http

Mock(method, pattern, shows) ==
    [method |-> method, pattern |-> pattern, throws |-> FALSE, shows |-> shows]

\* mock.post("/users"), mock.get("/users/"), mock.all("/users/:id"), mock.get("/:any")
\* and a handler that throws, mock.delete("/users").
Calls == <<Mock("POST", <<Text("users")>>, {"method", "accept"}),
           Mock("GET", <<Text("users"), Empty>>, {"method", "accept"}),
           Mock("ALL", <<Text("users"), Param("id")>>, {}),
           Mock("GET", <<Param("any")>>, {"accept"}),
           [Mock("DELETE", <<Text("users")>>, {}) EXCEPT !.throws = TRUE]>>

Asking(method, path, headers, body) ==
    [method |-> method, path |-> path, headers |-> headers, body |-> body, spaces |-> 2]

Host == Header("host", "", 0)
List  == Asking("GET", <<Text("users")>>, <<Accept("json")>>, <<>>)
Other == Asking("GET", <<Text("other")>>, <<Host, LengthIs(0)>>, <<>>)
Bye   == Asking("PUT", <<Text("users"), Text("7"), Empty>>,
                <<LengthIs(0), LengthIs(1), Connection("close")>>, <<Crlf>>)
\* A body that is itself an HTTP request.
Nested == Asking("POST", <<Text("users")>>, <<LengthIs(Len(Wire(List))), Connection("keep-alive")>>, Wire(List))
\* A method jsmock has no name for, a header line without a colon, a header given twice.
Odd   == Asking("OPTIONS", <<Text("users"), Text("7")>>, <<Junk, Accept("json"), Accept("text")>>, <<>>)
Wrong == Asking("DELETE", <<Text("users")>>, <<Host>>, <<>>)
Lost  == Asking("PATCH", <<Text("users")>>, <<Host>>, <<>>)
\* A request line only, and request lines that are none.
Bare     == Asking("GET", <<Text("users")>>, <<>>, <<>>)
Garbled0 == [List EXCEPT !.spaces = 0]
Garbled1 == [List EXCEPT !.spaces = 1, !.headers = <<Host, Host>>]
Garbled3 == [Bye EXCEPT !.spaces = 0, !.headers = <<Host, Host, Host>>, !.body = <<>>]

Requests == {List, Other, Bye, Nested, Odd, Wrong, Lost, Bare, Garbled0, Garbled1, Garbled3}

\* The requests are as HttpProofs takes them to be.
ASSUME InstanceIsPlain == PlainRequests
=============================================================================
