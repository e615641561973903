CONSTANTS
  hello_kld = hello_kld  hello_kld_ = hello_kld_  wifi = wifi
  None = None  NoName = NoName
  Numbers = {"9"}
  MaxWords = 5  MaxLines = 5
  Inputs <- SomeInputs
  Scripts = {"fbsd-sys", "net80211-sys"}
  Names = {hello_kld, hello_kld_, wifi}
  Underscored <- SomeUnderscored
SPECIFICATION Spec
CHECK_DEADLOCK FALSE
INVARIANTS TypeOK ParsedAsDocumented KtestTakesBuildFlags NoPanic LooksForCargosLibrary BindingsReadOwnTree
