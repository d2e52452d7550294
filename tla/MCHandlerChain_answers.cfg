\* Every chain of up to three handlers of the catalogue, and each list of methods, every request.
CONSTANTS
  GET = GET
  POST = POST
  BREW = BREW
  NotGET = NotGET
  NotPOST = NotPOST
  NotBREW = NotBREW
  NotNot = NotNot
  a = a
  b = b
  c = c
  d = d
  KnownMethod <- Known
  OtherMethod <- Unknown
  Caret <- Carets
  Path <- Paths
  HandlerLists <- Chains
  IndexModulus = 256
  FileKind <- Kinds
  IndexKind <- Indexes
  BasePath <- Below
SPECIFICATION ChainFairSpec
INVARIANTS OneAnswer FirstTakerAnswers
PROPERTIES FinalIsFinal AllAnswered
