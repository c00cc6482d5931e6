--------------------------- MODULE MCPmmServices ---------------------------
(* Small accounts for PmmServices.                                         *)
EXTENDS PmmServices

CONSTANTS p, r1, r2, given, mysql, postgres, oracle

EngineOf ==
  [d \in Database |-> CASE d = mysql -> "mysql" [] d = postgres -> "postgresql"
                        [] d = oracle -> "other"]

Arguments(discovered, registers, address1, identifier1, address2, identifier2, password2) ==
  [discovered |-> discovered, registers |-> registers,
   address |-> [r \in Rds |-> IF r = r1 THEN address1 ELSE address2],
   identifier |-> [r \in Rds |-> IF r = r1 THEN identifier1 ELSE identifier2],
   password |-> [r \in Resource |-> IF r = r2 THEN password2 ELSE "password"]]

\* A server that registers everything and two resources with an instance of their
\* own at it; one that registers nothing, and two resources at it or elsewhere
\* for one instance, with different passwords or with one; a server and a resource
\* for one instance, with an instance of another engine and one that is not there.
SmallConfigs ==
  {Arguments({mysql, postgres}, {p}, p, postgres, p, mysql, "other"),
   Arguments({mysql}, {}, p, mysql, given, mysql, "other"),
   Arguments({postgres}, {}, p, postgres, p, postgres, "password"),
   Arguments({mysql, oracle}, {p}, p, mysql, p, postgres, "password")}
=============================================================================
