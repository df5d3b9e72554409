---------------------------- MODULE MCHttpBoundary ----------------------------
EXTENDS HttpBoundary

CONSTANTS walker, other

Request(route, field, value) ==
  [route |-> route, header |-> "none", body |-> "fine", token |-> TRUE,
   field |-> field, value |-> value]

\* One request of each route that goes through ...
Good ==
  {Request("create", "dueDate", "null"), Request("update", "status", "fine"),
   Request("delete", "none", "fine"), Request("ready", "none", "fine")}

\* ... those with one thing wrong before the pipe ...
Odd ==
  {[Request("update", "dueDate", "absent") EXCEPT !.body = b[1], !.header = b[2]] :
      b \in {<<"large", "valid">>, <<"malformed", "unsafe">>, <<"undecodable", "none">>}}
  \cup {[Request("delete", "none", "fine") EXCEPT !.token = FALSE]}

\* ... and fields that are not what they should be.
Fields ==
  {Request("create", "name", "null"), Request("create", "status", "null"),
   Request("update", "name", "unstorable"), Request("list", "page", "wrong"),
   Request("list", "page", "fine"), Request("list", "page", "unstorable"),
   Request("register", "name", "fine")}

SomeRequests == Good \cup Odd \cup Fields
=============================================================================
