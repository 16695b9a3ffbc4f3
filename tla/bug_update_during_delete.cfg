SPECIFICATION Spec
CONSTANTS
  o1 = o1  o2 = o2  o3 = o3  s1 = s1  s2 = s2  e1 = e1  gv = gv
  master = master  ta = ta  u1 = u1
  Nil = Nil  Everyone = Everyone  Boot = Boot
  MasterTenant = master
  GlobalEvents = {}
  Ops = {o1, o2}
  Subs = {s1}
  Events = {e1, gv}
  Tenants = {master, ta}
  Users = {u1}
  Wazos = {}
  Bodies <- BodiesOfThreeKinds
  Messages <- AllMessages
  Kinds = {"update", "delete"}
  Faults = {"cross"}
  MasterInConfig = FALSE
SYMMETRY OpSymmetry
INVARIANTS NoOtherCallback
