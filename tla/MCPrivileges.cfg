SPECIFICATION CarryoverSpec
CONSTANTS
  schema = schema
  table = table
  column = column
  routine = routine
  owner = owner
  root = root
  pgowner = pgowner
  reader = reader
  utc = utc
  path = path
  literal = literal
  Objects = {schema, table, column, routine}
  Kinds = {"n", "r", "c", "f"}
  KindOf <- Kind
  SchemaOf <- Place
  Holders <- Inside
  Template = {schema}
  InTemplate <- OnPublicSchema
  Roles = {owner, root, pgowner}
  Grantees = {owner, root, pgowner, reader, Public}
  Public = Public
  PublicKinds = {"f"}
  Creators = {owner, root}
  Unreachable = {root}
  PgDatabaseOwner = pgowner
  DatabaseOwner = owner
  NoRole = NoRole
  Global = Global
  Acls <- SomeAcls
  Rules <- SomeRules
  Schemas = {schema}
  Relations = {table}
  Offers <- SomeOffers
  ConfersAll = TRUE
  Others = {reader}
  Settings = {"timezone", "search_path"}
  Values = {utc, path, literal}
  Quoted <- InQuotes
  NoValue = NoValue
  Databases <- SomeDatabases
INVARIANTS
  TypeOK
  Carried
  NothingWidened
  NewAsDefault
  CreatedLater
  DatabaseCarried
  PublicationsKept
CHECK_DEADLOCK FALSE
