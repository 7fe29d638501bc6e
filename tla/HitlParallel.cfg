SPECIFICATION Spec
CONSTANTS
  a = a
  ann = ann
  bob = bob
  NoOne = NoOne
  Message = {1, 2}
  Chat = {a}
  chatOf <- OneChat
  specialist <- NoSpecialist
  Operator = {ann, bob}
  Staff = {ann, bob}
  Primary = ann
  Reply = {1}
  Faults <- NoFaults
INVARIANT OneActivePerChat
CHECK_DEADLOCK FALSE
