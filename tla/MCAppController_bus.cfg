CONSTANTS
  a = a  ctl = ctl  web = web  odd = odd  zcUID = zcUID  e1 = e1
  Module = {a, odd, ctl, zcUID}
  Order <- OrderControl
  kindOf <- Kinds
  Certified = {ctl}
  Command = {"ping", "pong", "setActive", "start", "stop", "quit"}
  Sender <- Senders
  Target <- Lists
  MaxSends = 1
  Entry = {e1}
  ownerOf <- Owner
  Publishes = {e1}
  MaxStarts = 6
  MaxPublish = 16
SPECIFICATION FairSpec
CHECK_DEADLOCK FALSE
INVARIANTS EndsInOrder
PROPERTIES InactiveStaysInactive EverythingEnds
