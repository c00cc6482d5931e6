SPECIFICATION OperatorSpec
CONSTANTS
  p = p
  r1 = r1
  r2 = r2
  given = given
  mysql = mysql
  postgres = postgres
  oracle = oracle
  Pmm = {p}
  Rds = {r1, r2}
  Given = {given}
  Database = {mysql, postgres, oracle}
  Engine <- EngineOf
  Configs <- SmallConfigs
  MaxCreates = 2
  MaxUpdates = 1
  MaxFaults = 1
  MaxKills = 1
INVARIANTS TypeOK OrphansAccounted ServicesWork
PROPERTIES OnlyOwnServices DestroyConverges
CHECK_DEADLOCK FALSE
