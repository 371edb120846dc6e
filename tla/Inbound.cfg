SPECIFICATION Spec
CONSTANTS
  c1 = c1 l1 = l1 l2 = l2 h1 = h1 h2 = h2
  Contact = {c1}
  Message = {in1, out1}
  ContactOf <- OneContact
  Incoming = {in1}
  Lead = {l1, l2}
  Nobody = Nobody
  Hook = {h1, h2}
  Sync = {s1}
  MaxDeliveries = 2
  MaxSyncs = 1
  MaxFailures = 1
SYMMETRY Symmetry
INVARIANTS TypeOK ContactsAreMetOnce RowsAreAnnounced
