-------------------------- MODULE MCHttpConnection --------------------------
(***************************************************************************)
(* HttpConnection with the scripts of a browser and of a careless client.  *)
(***************************************************************************)
EXTENDS HttpConnection

T(t) == [t |-> t, n |-> 0]
CrLf == <<T("cr"), T("lf")>>

Line(t, n)    == <<[t |-> t, n |-> n]>> \o CrLf
Length(n)     == Line("length", n)
Keep          == Line("keep", 0)
Body(n)       == [i \in 1 .. n |-> T("body")]

\* A request for a resource with an answer of size n: kept or not, and with a
\* body of b tokens or none.
Get(n)        == Line("page", n) \o Keep \o CrLf
GetLast(n)    == Line("page", n) \o CrLf
Upgraded(n)   == Line("page", n) \o Line("upgrade", 0) \o CrLf
Post(t, n, b) == Line(t, n) \o Keep \o Length(b) \o CrLf \o Body(b)

Browser ==
    { Get(1) \o GetLast(1),
      Post("form", 1, 2) \o Get(2),
      Post("page", 1, 2) \o GetLast(1),
      Post("command", 1, 1) \o Post("form", 1, 1) \o GetLast(2),
      Post("page", 2, 3) \o GetLast(1) }

Careless ==
    { Line("garbled", 0),
      <<T("page"), T("pad"), T("pad")>> \o CrLf,
      Line("page", 1) \o Line("malformed", 0),
      <<T("page"), T("cr"), T("pad")>>,
      Line("form", 1) \o CrLf \o Body(1),
      Get(1) \o Upgraded(1),
      Line("page", 1) \o Line("upgrade", 0) \o Keep \o CrLf }

BrowserAndCareless == Browser \cup Careless

\* Nothing but GET: no body to wait for.
OneGet == {GetLast(1)}
=============================================================================
