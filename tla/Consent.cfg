CONSTANTS
  Loads = {l1}
  Writers = {w1}
  MaxUpdates = 1
  Sessions = {"s"}
  Cryptos = {"btc", "eth"}
  Methods = {"revolut", "paypal"}
  Limit = 1
  Clicks = {c1, c2}
  NoSession = "none"
  Exchangers = {"alice"}
  Texts = {"old", "new"}
  Calls = {k1, k2}
  MaxMessages = 1
  NoExchanger = "none"
  NoText = "none"
SPECIFICATION FairSpec
INVARIANTS ConsentTypeOK OneTradePerOffer ConsentBeforeClaim
PROPERTIES SettingsSettle
CHECK_DEADLOCK FALSE
