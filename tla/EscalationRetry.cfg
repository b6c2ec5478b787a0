CONSTANTS
 Tickets = {t1,t2}
 Tenants = {n1}
 Partners = {}
 Platform = hub
 Sessions = {s1,s2}
 None = none
 Filers = {n1}
 Choices = {}
 Operations = {"resolve", "return"}
 MaxFailures = 2
SPECIFICATION RetrySpec
PROPERTY HandBackCompletes
CHECK_DEADLOCK FALSE
