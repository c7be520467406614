CONSTANTS
  c1 = c1  c2 = c2
  Courses = {c1, c2}
  VerifiedCourses = {c1}
  RegistrationPrice <- MCRegistrationPrice
  CertificatePrice <- MCCertificatePrice
  Handlers = {h1}
  MaxOrders = 1  MaxItems = 1
  MaxRequests = 2  MaxCharges = 1  MaxPosts = 2  MaxFailures = 0
SPECIFICATION Spec
CHECK_DEADLOCK FALSE
PROPERTIES RefundStands
