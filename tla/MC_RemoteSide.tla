--------------------------- MODULE MC_RemoteSide ---------------------------
(***************************************************************************)
(* A small instance of RemoteSide: an agent with two http tunnels of one   *)
(* name and one of another protocol, one visitor, and a terminal at which  *)
(* commands of every kind are typed.                                       *)
(***************************************************************************)
EXTENDS RemoteSide, TLC

CONSTANTS e1, e2, e3, x1, v1, n1

MCNames       == {n1}
MCEntries     == {e1, e2, e3}
MCCLIs        == {x1}
MCVisitors    == {v1}
MCCallers     == MCEntries \cup MCCLIs
MCName        == [e \in MCEntries |-> n1]
MCProtocol    == [e \in MCEntries |-> IF e = e3 THEN "tcp" ELSE "http"]

MCInvocation(command, name, enough, json, key, loaded, detected, lang) ==
    [command |-> command, name |-> name, enough |-> enough, json |-> json, token |-> key,
     loaded |-> loaded, detected |-> detected, lang |-> lang]

\* A command with its files in place, and one whose language has none: the
\* texts of the options are found in French, those of a success are not.
Plain(command, name)  == MCInvocation(command, name, TRUE, FALSE, "valid", {"en"}, "en", "en")
French(command, name) == MCInvocation(command, name, TRUE, FALSE, "valid", {"fr"}, "fr", "es")

MCInvocations ==
    { Plain("create", n1), Plain("create", NoName), Plain("delete", n1), Plain("logs", n1),
      Plain("health", NoName),
      French("create", n1),
      MCInvocation("list", NoName, TRUE, TRUE, "other", {"fr"}, "fr", "es"),
      MCInvocation("get", NoName, FALSE, FALSE, "valid", {"en"}, "en", "fr"),
      MCInvocation("install-skill", NoName, TRUE, FALSE, "none", {"fr"}, "fr", "en"),
      MCInvocation("version", NoName, TRUE, FALSE, "none", {}, "en", "en") }
=============================================================================
