CONSTANTS
  c1 = c1  c2 = c2
  Courses = {c1, c2}
  VerifiedCourses = {c1}
  RegistrationPrice <- MCRegistrationPrice
  CertificatePrice <- MCCertificatePrice
  Handlers = {h1, h2}
  MaxOrders = 2  MaxItems = 3
  MaxRequests = 5  MaxCharges = 1  MaxPosts = 2  MaxFailures = 1
SYMMETRY Symmetry
SPECIFICATION Spec
CHECK_DEADLOCK FALSE
INVARIANTS TypeOK FulfilmentPaid PurchasedComplete CartsUnpaid FulfilledEnrolled
