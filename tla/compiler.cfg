SPECIFICATION MCSpec
CONSTANTS
  Letters = {"i", "f", "e", "E"}
  Digits = {"0", "1"}
  OtherChars = {"@"}
  ReservedWords <- If
  Texts <- ShortTexts
  Commands <- AllCommands
  Readable = {"a.src", "codegen", "attribute_grammar_parsing_table.csv"}
  PhaseNames = {"scan", "parse", "symbol", "semantic", "memory", "codegen"}
  PhaseOf <- PhaseNumbers
  CommentLength = 7
  NumberLength = 6
  WordLength = 4
  SymbolLength = 4
INVARIANTS NoCharacterIsLost LiteralsFollowTheRules ElementsStayWhole CommentsNest LinesAreTrue
  PhasesBuildUp InvalidTokensAreReported
PROPERTY CompilerEnds
CHECK_DEADLOCK FALSE
