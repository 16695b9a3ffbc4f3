SPECIFICATION FairSpec
CONSTANTS
  s1 = s1  s2 = s2  u1 = u1  t1 = t1  t2 = t2
  Nil = Nil
  Subs = {s1, s2}
  Users = {u1}
  Tenants = {t1, t2}
  TenantOf <- TenantOfUser
  VisibleTenants <- ParentAndSelf
  Bodies <- AdminBodies
  MaxEvents = 3
INVARIANTS TypeOK OneMobileEach RemovedLeaveNoRow
PROPERTIES OrphansSwept
