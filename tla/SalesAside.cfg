SPECIFICATION Spec
CONSTANTS
  Turn = {1}
  Day = {1}
  Hour = {1, 2, 3}
  Message <- Messages
  Rival <- FirstHour
PROPERTY AsidesKeepTheFunnel
